---- MODULE Spec2Model ----
(***************************************************************************)
(* The session state machine of grit (src/app.rs) and its main loop        *)
(* (src/main.rs): the reducer App::update, the background load units it    *)
(* spawns, the best-effort cache they read and write, and the single       *)
(* action channel over which everything reaches the reducer.               *)
(***************************************************************************)
EXTENDS Integers, Sequences, FiniteSets, Bags, TLC

VARIABLES
    app,    \* the App struct (src/app.rs:70)
    chan,   \* the unbounded mpsc action channel (src/main.rs:173), FIFO
    tasks,  \* bag of background units spawned with tokio::spawn, still running
    cache,  \* the on-disk cache (src/cache.rs): key -> last payload written
    last,   \* the action App::update applied in the latest step (Idle: none)
    env,    \* the session's surroundings: what the user and the remote do
    running, \* the main loop (src/main.rs:187) has not been left
    term    \* the terminal, the EventHandler and the child process (src/tui.rs)

vars == <<app, chan, tasks, cache, last, env, running, term>>

-----------------------------------------------------------------------------
(* Program constants *)

PAGE_SIZE == 50
PREFETCH_THRESHOLD == 5
PAGE_STEP == 10
\* seconds after which update drops a flash message (src/app.rs:1327)
FLASH_SECS == 3

(* Bounds of the model *)

\* generation-incrementing actions applied once the user has reached the
\* screen of the session (load_id is a u64)
MaxLoads == 2
\* key-derived actions that may wait in the channel at the same time
MaxPendingKeys == 1
\* actions waiting in the channel when a key event or a unit's result adds one
MaxChan == 2
\* the remote lists hold at most this many full pages
MaxFullPages == 2
MaxQuery == 2
MaxTypeAhead == 2
MaxCalls == 1
\* seconds a flash message is aged for
MaxFlashAge == 5
\* keys at the terminal that nobody has read yet
MaxTty == 2
\* keys the listener has read and the loop has not yet taken
MaxEvents == 1

-----------------------------------------------------------------------------
(* Option<T>, usize arithmetic *)

None == <<>>
Some(x) == <<x>>
IsSome(o) == o # <<>>
Unwrap(o) == o[1]

Min(a, b) == IF a <= b THEN a ELSE b
SatSub(a, b) == IF a >= b THEN a - b ELSE 0

-----------------------------------------------------------------------------
(* Payloads.  An item of a list carries its position n in the remote list  *)
(* (its number, sha or name) and src, the generation of the call that      *)
(* fetched it (0: a payload found in the cache at startup), so that the    *)
(* payloads of different calls can be told apart.                          *)

Items(src, page, len) ==
    [i \in 1..len |-> [n |-> (page - 1) * PAGE_SIZE + i, src |-> src]]

\* the (owner, name) an item of the repo list or of the home lists names
RepoOf(item) == item.n

\* lengths a remote call for a page may return
NetLens(page) == IF page <= MaxFullPages THEN {0, 2, PAGE_SIZE} ELSE {0, 2}
HomeLens == {0, 2}
\* number of body lines of a pull request
PrBodyLines == {0, 3}
\* (message lines, patch lines per file; -1: a file without patch)
CommitShapes == {[msg |-> 1, files |-> <<>>], [msg |-> 2, files |-> <<2, -1>>]}

PrRecord(number, src, lines) == [number |-> number, src |-> src, lines |-> lines]
CommitRecord(sha, src, shape) ==
    [sha |-> sha, src |-> src, msg |-> shape.msg, files |-> shape.files]

-----------------------------------------------------------------------------
(* Actions (src/action.rs:41).  One record shape for all of them.          *)

\* from: the input mode under which a key was translated into the action
\* ("": the action does not come from a key)
Act(kind) ==
    [kind |-> kind, load_id |-> 0, src |-> 0, len |-> 0, len2 |-> 0,
     page |-> 0, tab |-> "", detail |-> None, ch |-> "", arg |-> None,
     from |-> ""]

TabAct(tab) == [Act("SwitchRepoTab") EXCEPT !.tab = tab]
\* a list payload: page `page` of the list as call `src` saw it
ListAct(kind, src, page, len, load_id) ==
    [Act(kind) EXCEPT !.src = src, !.page = page, !.len = len, !.load_id = load_id]
HomeAct(src, len, len2, load_id) ==
    [Act("HomeLoaded") EXCEPT !.src = src, !.len = len, !.len2 = len2,
                              !.load_id = load_id]
DetailAct(kind, rec, load_id) ==
    [Act(kind) EXCEPT !.detail = Some(rec), !.load_id = load_id]
\* Error(e.to_string()); the message names the call that failed
ErrorAct(msg) == [Act("Error") EXCEPT !.ch = msg]
CharAct(c) == [Act("SearchInput") EXCEPT !.ch = c]

\* ConfirmAction (src/action.rs:22); method is "" but for MergePr
ConfirmAction(op, number, method) == [op |-> op, number |-> number, method |-> method]
ShowConfirm(ca) == [Act("ShowConfirm") EXCEPT !.arg = Some(ca)]

\* EditorContext (src/action.rs:30); event is "" but for ReviewPr
EditorContext(op, repo, number, event) ==
    [op |-> op, repo |-> repo, number |-> number, event |-> event]
SuspendForEditor(ctx) == [Act("SuspendForEditor") EXCEPT !.arg = Some(ctx)]

PayloadOf(a) == Items(a.src, a.page, a.len)

-----------------------------------------------------------------------------
(* Background units (tokio::spawn in the spawn_* methods) *)

Unit(unit, load_id) ==
    [unit |-> unit, load_id |-> load_id, page |-> 1, repo |-> 0, item |-> 0,
     how |-> ""]
RepoUnit(unit, repo, load_id) == [Unit(unit, load_id) EXCEPT !.repo = repo]
PageUnit(unit, repo, page, load_id) ==
    [Unit(unit, load_id) EXCEPT !.repo = repo, !.page = page]
ItemUnit(unit, repo, item, load_id) ==
    [Unit(unit, load_id) EXCEPT !.repo = repo, !.item = item]
\* a call that changes the remote: untagged, `how` its merge method or
\* review event
CallUnit(unit, repo, item, how) ==
    [Unit(unit, 0) EXCEPT !.repo = repo, !.item = item, !.how = how]

-----------------------------------------------------------------------------
(* The cache (src/cache.rs) *)

Key(k, repo, id) == [k |-> k, repo |-> repo, id |-> id]
Entry(src, len, len2, detail) ==
    [src |-> src, len |-> len, len2 |-> len2, detail |-> detail]

CacheRead(c, key) == IF key \in DOMAIN c THEN Some(c[key]) ELSE None
CacheWrite(c, key, e) ==
    [k \in DOMAIN c \cup {key} |-> IF k = key THEN e ELSE c[k]]

EmptyCache == [k \in {} |-> Entry(0, 0, 0, None)]

-----------------------------------------------------------------------------
(* The App struct and App::new *)

DefaultPagination == [page |-> 1, has_more |-> FALSE, loading_more |-> FALSE]

DefaultSearch ==
    [query |-> <<>>, active |-> FALSE, match_indices |-> <<>>, current_match |-> 0,
     content_matches |-> <<>>]

\* the terminal as run leaves it before the loop: raw mode, a listener
TermNew ==
    [phase |-> "loop", listener |-> TRUE, stopping |-> FALSE, child |-> FALSE,
     raw |-> TRUE, tty |-> <<>>, events |-> <<>>, pending |-> None, key |-> None]

AppNew ==
    [screen |-> "Home", input_mode |-> "Normal", search |-> DefaultSearch,
     confirm_action |-> None, popup_items |-> <<>>, popup_index |-> 0,
     popup_title |-> "",
     review_requests |-> <<>>, my_prs |-> <<>>, home_section |-> "ReviewRequests",
     review_index |-> 0, my_pr_index |-> 0,
     repo_tab |-> "PullRequests",
     issues |-> <<>>, commits |-> <<>>, action_runs |-> <<>>,
     issue_index |-> 0, commit_index |-> 0, action_index |-> 0,
     repos |-> <<>>, prs |-> <<>>,
     current_pr |-> None, current_commit |-> None,
     repo_index |-> 0, pr_index |-> 0, scroll_offset |-> 0,
     loading |-> FALSE, error |-> None, should_quit |-> FALSE,
     flash_message |-> None,
     current_repo |-> None, prev_screen |-> None, load_id |-> 0,
     repos_pagination |-> DefaultPagination, prs_pagination |-> DefaultPagination,
     issues_pagination |-> DefaultPagination,
     commits_pagination |-> DefaultPagination,
     actions_pagination |-> DefaultPagination]

\* the fields, units and actions that belong to each paginated list
ReposF == [list |-> "repos", idx |-> "repo_index", pag |-> "repos_pagination",
           unit |-> "load_repos", page_unit |-> "load_repos_page",
           loaded |-> "ReposLoaded", appended |-> "ReposAppended", ck |-> "repos"]
PrsF == [list |-> "prs", idx |-> "pr_index", pag |-> "prs_pagination",
         unit |-> "load_prs", page_unit |-> "load_prs_page",
         loaded |-> "PrsLoaded", appended |-> "PrsAppended", ck |-> "prs"]
IssuesF == [list |-> "issues", idx |-> "issue_index", pag |-> "issues_pagination",
            unit |-> "load_issues", page_unit |-> "load_issues_page",
            loaded |-> "IssuesLoaded", appended |-> "IssuesAppended", ck |-> "issues"]
CommitsF == [list |-> "commits", idx |-> "commit_index", pag |-> "commits_pagination",
             unit |-> "load_commits", page_unit |-> "load_commits_page",
             loaded |-> "CommitsLoaded", appended |-> "CommitsAppended",
             ck |-> "commits"]
ActionsF == [list |-> "action_runs", idx |-> "action_index",
             pag |-> "actions_pagination",
             unit |-> "load_action_runs", page_unit |-> "load_action_runs_page",
             loaded |-> "ActionRunsLoaded", appended |-> "ActionRunsAppended",
             ck |-> "actions"]
PagedLists == {ReposF, PrsF, IssuesF, CommitsF, ActionsF}

Tabs == <<"PullRequests", "Issues", "Commits", "Actions">>
TabF(tab) ==
    CASE tab = "PullRequests" -> PrsF
      [] tab = "Issues" -> IssuesF
      [] tab = "Commits" -> CommitsF
      [] tab = "Actions" -> ActionsF

\* the list and selection index a list screen shows
HomeF(section) ==
    IF section = "ReviewRequests"
    THEN [list |-> "review_requests", idx |-> "review_index"]
    ELSE [list |-> "my_prs", idx |-> "my_pr_index"]
ShownF(s) ==
    CASE s.screen = "Home" -> HomeF(s.home_section)
      [] s.screen = "RepoList" -> ReposF
      [] s.screen = "RepoView" -> TabF(s.repo_tab)

OnDetail(s) == s.screen \in {"PrDetail", "CommitDetail"}

\* Vec::get(index)
Get(list, index) == IF index < Len(list) THEN Some(list[index + 1]) ELSE None

-----------------------------------------------------------------------------
(* What a handler does besides changing the App: the actions it sends on   *)
(* action_tx and the units it spawns.                                      *)

Eff(s, sent, spawned) == [app |-> s, sent |-> sent, spawned |-> spawned]
Only(s) == Eff(s, <<>>, <<>>)

-----------------------------------------------------------------------------
(* spawn_load_*: the cached payload, if any, is sent at once with the      *)
(* load's generation; the network call runs as a background unit.          *)

spawn_load_home(s, c, load_id) ==
    LET e == CacheRead(c, Key("home", 0, 0))
    IN  Eff(s, IF IsSome(e)
               THEN <<HomeAct(Unwrap(e).src, Unwrap(e).len, Unwrap(e).len2, load_id)>>
               ELSE <<>>,
            <<Unit("load_home", load_id)>>)

spawn_load_repos(s, c, load_id) ==
    LET e == CacheRead(c, Key("repos", 0, 0))
    IN  Eff(s, IF IsSome(e)
               THEN <<ListAct("ReposLoaded", Unwrap(e).src, 1, Unwrap(e).len, load_id)>>
               ELSE <<>>,
            <<Unit("load_repos", load_id)>>)

\* spawn_load_prs, spawn_load_issues, spawn_load_commits, spawn_load_action_runs
spawn_load_tab(s, c, f, repo, load_id) ==
    LET e == CacheRead(c, Key(f.ck, repo, 0))
    IN  Eff(s, IF IsSome(e)
               THEN <<ListAct(f.loaded, Unwrap(e).src, 1, Unwrap(e).len, load_id)>>
               ELSE <<>>,
            <<RepoUnit(f.unit, repo, load_id)>>)

spawn_load_pr_detail(s, c, repo, number, load_id) ==
    LET e == CacheRead(c, Key("pr", repo, number))
    IN  Eff(s, IF IsSome(e)
               THEN <<DetailAct("PrDetailLoaded", Unwrap(Unwrap(e).detail), load_id)>>
               ELSE <<>>,
            <<ItemUnit("load_pr_detail", repo, number, load_id)>>)

spawn_load_commit_detail(s, c, repo, sha, load_id) ==
    LET e == CacheRead(c, Key("commit", repo, sha))
    IN  Eff(s, IF IsSome(e)
               THEN <<DetailAct("CommitDetailLoaded", Unwrap(Unwrap(e).detail), load_id)>>
               ELSE <<>>,
            <<ItemUnit("load_commit_detail", repo, sha, load_id)>>)

\* spawn_load_*_page: no cache
spawn_load_page(s, f, repo, page, load_id) ==
    Eff(s, <<>>, <<PageUnit(f.page_unit, repo, page, load_id)>>)

-----------------------------------------------------------------------------
(* max_scroll_offset *)

RECURSIVE FileLines(_)
FileLines(files) ==
    IF files = <<>> THEN 0
    ELSE 1 + (IF Head(files) >= 0 THEN Head(files) ELSE 0) + 1 + FileLines(Tail(files))

max_scroll_offset(s) ==
    CASE s.screen = "PrDetail" ->
            IF IsSome(s.current_pr) THEN SatSub(Unwrap(s.current_pr).lines, 1) ELSE 0
      [] s.screen = "CommitDetail" ->
            IF IsSome(s.current_commit)
            THEN LET c == Unwrap(s.current_commit)
                 IN  SatSub(5 + c.msg + 1 + FileLines(c.files), 1)
            ELSE 0
      [] OTHER -> 0

-----------------------------------------------------------------------------
(* check_pagination *)

InPrefetchWindow(index, len) == index >= SatSub(len, PREFETCH_THRESHOLD)

ShouldPrefetch(s, f) ==
    /\ InPrefetchWindow(s[f.idx], Len(s[f.list]))
    /\ s[f.pag].has_more
    /\ ~s[f.pag].loading_more

check_pagination(s) ==
    CASE s.screen = "RepoList" ->
            IF ShouldPrefetch(s, ReposF)
            THEN LET p == s.repos_pagination.page + 1
                 IN  spawn_load_page(
                        [s EXCEPT !.repos_pagination.loading_more = TRUE,
                                  !.repos_pagination.page = p],
                        ReposF, 0, p, s.load_id)
            ELSE Only(s)
      [] s.screen = "RepoView" ->
            LET f == TabF(s.repo_tab) IN
            IF ShouldPrefetch(s, f)
            THEN LET p == s[f.pag].page + 1
                     s2 == [s EXCEPT ![f.pag].loading_more = TRUE, ![f.pag].page = p]
                 IN  IF IsSome(s.current_repo)
                     THEN spawn_load_page(s2, f, Unwrap(s.current_repo), p, s.load_id)
                     ELSE Only(s2)
            ELSE Only(s)
      [] OTHER -> Only(s)

-----------------------------------------------------------------------------
(* App::update, one operator per match arm.  s is the App after the error  *)
(* banner was cleared, c the cache, a the action.                          *)

\* a banner that every action clears
clear_error_always(s, a) == IF IsSome(s.error) THEN [s EXCEPT !.error = None] ELSE s

clear_error(s, a) ==
    IF IsSome(s.error) /\ a.kind \notin {"Quit", "Back"}
    THEN [s EXCEPT !.error = None] ELSE s

OnQuitIgnored(s) == Only(s)
OnQuit(s) == Only([s EXCEPT !.should_quit = TRUE])

\* Back that leaves the detail record and the scroll offset in place
OnBackKeepsRecord(s) ==
    CASE s.screen = "Home" -> Only([s EXCEPT !.should_quit = TRUE])
      [] s.screen = "RepoList" -> Only([s EXCEPT !.screen = "Home"])
      [] s.screen = "RepoView" ->
            Only([s EXCEPT !.screen = "RepoList", !.repo_tab = "PullRequests",
                           !.prs = <<>>, !.issues = <<>>, !.commits = <<>>,
                           !.action_runs = <<>>])
      [] s.screen = "PrDetail" ->
            Only([s EXCEPT !.screen = IF IsSome(s.prev_screen)
                                      THEN Unwrap(s.prev_screen) ELSE "Home",
                           !.prev_screen = None])
      [] s.screen = "CommitDetail" ->
            Only([s EXCEPT !.screen = IF IsSome(s.prev_screen)
                                      THEN Unwrap(s.prev_screen) ELSE "RepoView",
                           !.prev_screen = None])

OnBack(s) ==
    CASE s.screen = "Home" -> Only([s EXCEPT !.should_quit = TRUE])
      [] s.screen = "RepoList" -> Only([s EXCEPT !.screen = "Home"])
      [] s.screen = "RepoView" ->
            Only([s EXCEPT !.screen = "RepoList", !.repo_tab = "PullRequests",
                           !.prs = <<>>, !.issues = <<>>, !.commits = <<>>,
                           !.action_runs = <<>>])
      [] s.screen = "PrDetail" ->
            Only([s EXCEPT !.screen = IF IsSome(s.prev_screen)
                                      THEN Unwrap(s.prev_screen) ELSE "Home",
                           !.current_pr = None, !.scroll_offset = 0,
                           !.prev_screen = None])
      [] s.screen = "CommitDetail" ->
            Only([s EXCEPT !.screen = IF IsSome(s.prev_screen)
                                      THEN Unwrap(s.prev_screen) ELSE "RepoView",
                           !.current_commit = None, !.scroll_offset = 0,
                           !.prev_screen = None])

\* ScrollUp followed by the prefetch check
OnScrollUpChecked(s) ==
    IF OnDetail(s)
    THEN check_pagination(IF s.scroll_offset > 0
                          THEN [s EXCEPT !.scroll_offset = @ - 1] ELSE s)
    ELSE LET f == ShownF(s)
         IN  check_pagination(IF s[f.idx] > 0 THEN [s EXCEPT ![f.idx] = @ - 1] ELSE s)

OnScrollUp(s) ==
    IF OnDetail(s)
    THEN Only(IF s.scroll_offset > 0 THEN [s EXCEPT !.scroll_offset = @ - 1] ELSE s)
    ELSE LET f == ShownF(s)
         IN  Only(IF s[f.idx] > 0 THEN [s EXCEPT ![f.idx] = @ - 1] ELSE s)

\* ScrollDown without the test for the last index
OnScrollDownPast(s) ==
    IF OnDetail(s)
    THEN check_pagination([s EXCEPT !.scroll_offset = @ + 1])
    ELSE check_pagination([s EXCEPT ![ShownF(s).idx] = @ + 1])

OnScrollDown(s) ==
    IF OnDetail(s)
    THEN check_pagination(IF s.scroll_offset < max_scroll_offset(s)
                          THEN [s EXCEPT !.scroll_offset = @ + 1] ELSE s)
    ELSE LET f == ShownF(s)
         IN  check_pagination(
                IF s[f.list] # <<>> /\ s[f.idx] < Len(s[f.list]) - 1
                THEN [s EXCEPT ![f.idx] = @ + 1] ELSE s)

OnGoToTop(s) ==
    IF OnDetail(s) THEN Only([s EXCEPT !.scroll_offset = 0])
    ELSE Only([s EXCEPT ![ShownF(s).idx] = 0])

OnGoToBottom(s) ==
    IF OnDetail(s)
    THEN check_pagination([s EXCEPT !.scroll_offset = max_scroll_offset(s)])
    ELSE LET f == ShownF(s)
         IN  check_pagination(
                IF s[f.list] # <<>> THEN [s EXCEPT ![f.idx] = Len(s[f.list]) - 1]
                ELSE s)

OnPageUp(s) ==
    IF OnDetail(s) THEN Only([s EXCEPT !.scroll_offset = SatSub(@, PAGE_STEP)])
    ELSE Only([s EXCEPT ![ShownF(s).idx] = SatSub(@, PAGE_STEP)])

OnPageDown(s) ==
    IF OnDetail(s)
    THEN check_pagination(
            [s EXCEPT !.scroll_offset = Min(@ + PAGE_STEP, max_scroll_offset(s))])
    ELSE LET f == ShownF(s)
         IN  check_pagination(
                [s EXCEPT ![f.idx] = Min(@ + PAGE_STEP, SatSub(Len(s[f.list]), 1))])

\* the new tab's load is handed the load_id of before the increment
enter_tab_old_id(s, c, tab) ==
    LET f == TabF(tab)
        s1 == [s EXCEPT !.repo_tab = tab, ![f.idx] = 0, !.load_id = @ + 1]
    IN  IF IsSome(s.current_repo)
        THEN spawn_load_tab([s1 EXCEPT !.loading = TRUE], c, f,
                            Unwrap(s.current_repo), s.load_id)
        ELSE Only(s1)

\* the tail shared by NextTab and PrevTab on RepoView, and SwitchRepoTab
enter_tab(s, c, tab) ==
    LET f == TabF(tab)
        s1 == [s EXCEPT !.repo_tab = tab, ![f.idx] = 0, !.load_id = @ + 1]
    IN  IF IsSome(s.current_repo)
        THEN spawn_load_tab([s1 EXCEPT !.loading = TRUE], c, f,
                            Unwrap(s.current_repo), s1.load_id)
        ELSE Only(s1)

OtherSection(section) == IF section = "ReviewRequests" THEN "MyPrs" ELSE "ReviewRequests"

NextOf(tab) ==
    CASE tab = "PullRequests" -> "Issues"
      [] tab = "Issues" -> "Commits"
      [] tab = "Commits" -> "Actions"
      [] tab = "Actions" -> "PullRequests"

PrevOf(tab) ==
    CASE tab = "PullRequests" -> "Actions"
      [] tab = "Issues" -> "PullRequests"
      [] tab = "Commits" -> "Issues"
      [] tab = "Actions" -> "Commits"

OnNextTab(s, c) ==
    CASE s.screen = "Home" -> Only([s EXCEPT !.home_section = OtherSection(@)])
      [] s.screen = "RepoView" -> enter_tab(s, c, NextOf(s.repo_tab))
      [] OTHER -> Only(s)

OnPrevTab(s, c) ==
    CASE s.screen = "Home" -> Only([s EXCEPT !.home_section = OtherSection(@)])
      [] s.screen = "RepoView" -> enter_tab(s, c, PrevOf(s.repo_tab))
      [] OTHER -> Only(s)

OnSwitchRepoTab(s, c, a) == enter_tab(s, c, a.tab)

\* Select that opens a repository without recording which one
OnSelectNoRepo(s, c) ==
    CASE s.screen = "Home" ->
            LET f == HomeF(s.home_section)
                it == Get(s[f.list], s[f.idx])
            IN  IF IsSome(it)
                THEN LET repo == RepoOf(Unwrap(it))
                         s1 == [s EXCEPT !.current_repo = Some(repo), !.load_id = @ + 1]
                     IN  spawn_load_pr_detail(s1, c, repo, Unwrap(it).n, s1.load_id)
                ELSE Only(s)
      [] s.screen = "RepoList" ->
            LET it == Get(s.repos, s.repo_index)
            IN  IF IsSome(it)
                THEN LET repo == RepoOf(Unwrap(it))
                         s1 == [s EXCEPT !.screen = "RepoView",
                                         !.repo_tab = "PullRequests",
                                         !.pr_index = 0, !.issue_index = 0,
                                         !.commit_index = 0, !.action_index = 0,
                                         !.load_id = @ + 1]
                     IN  spawn_load_tab(s1, c, PrsF, repo, s1.load_id)
                ELSE Only(s)
      [] s.screen = "RepoView" /\ s.repo_tab = "PullRequests" ->
            LET it == Get(s.prs, s.pr_index)
            IN  IF IsSome(it) /\ IsSome(s.current_repo)
                THEN LET s1 == [s EXCEPT !.load_id = @ + 1]
                     IN  spawn_load_pr_detail(s1, c, Unwrap(s.current_repo),
                                              Unwrap(it).n, s1.load_id)
                ELSE Only(s)
      [] s.screen = "RepoView" /\ s.repo_tab = "Commits" ->
            LET it == Get(s.commits, s.commit_index)
            IN  IF IsSome(it) /\ IsSome(s.current_repo)
                THEN LET s1 == [s EXCEPT !.load_id = @ + 1]
                     IN  spawn_load_commit_detail(s1, c, Unwrap(s.current_repo),
                                                  Unwrap(it).n, s1.load_id)
                ELSE Only(s)
      [] OTHER -> Only(s)

OnSelect(s, c) ==
    CASE s.screen = "Home" ->
            LET f == HomeF(s.home_section)
                it == Get(s[f.list], s[f.idx])
            IN  IF IsSome(it)
                THEN LET repo == RepoOf(Unwrap(it))
                         s1 == [s EXCEPT !.current_repo = Some(repo), !.load_id = @ + 1]
                     IN  spawn_load_pr_detail(s1, c, repo, Unwrap(it).n, s1.load_id)
                ELSE Only(s)
      [] s.screen = "RepoList" ->
            LET it == Get(s.repos, s.repo_index)
            IN  IF IsSome(it)
                THEN LET repo == RepoOf(Unwrap(it))
                         s1 == [s EXCEPT !.current_repo = Some(repo),
                                         !.screen = "RepoView",
                                         !.repo_tab = "PullRequests",
                                         !.pr_index = 0, !.issue_index = 0,
                                         !.commit_index = 0, !.action_index = 0,
                                         !.load_id = @ + 1]
                     IN  spawn_load_tab(s1, c, PrsF, repo, s1.load_id)
                ELSE Only(s)
      [] s.screen = "RepoView" /\ s.repo_tab = "PullRequests" ->
            LET it == Get(s.prs, s.pr_index)
            IN  IF IsSome(it) /\ IsSome(s.current_repo)
                THEN LET s1 == [s EXCEPT !.load_id = @ + 1]
                     IN  spawn_load_pr_detail(s1, c, Unwrap(s.current_repo),
                                              Unwrap(it).n, s1.load_id)
                ELSE Only(s)
      [] s.screen = "RepoView" /\ s.repo_tab = "Commits" ->
            LET it == Get(s.commits, s.commit_index)
            IN  IF IsSome(it) /\ IsSome(s.current_repo)
                THEN LET s1 == [s EXCEPT !.load_id = @ + 1]
                     IN  spawn_load_commit_detail(s1, c, Unwrap(s.current_repo),
                                                  Unwrap(it).n, s1.load_id)
                ELSE Only(s)
      [] OTHER -> Only(s)

OnLoadHome(s, c) ==
    LET s1 == [s EXCEPT !.loading = TRUE, !.load_id = @ + 1]
    IN  spawn_load_home(s1, c, s1.load_id)

OnRefresh(s, c) ==
    LET s1 == [s EXCEPT !.load_id = @ + 1] IN
    CASE s.screen = "Home" ->
            spawn_load_repos([s1 EXCEPT !.loading = TRUE, !.screen = "RepoList"],
                             c, s1.load_id)
      [] s.screen = "RepoList" ->
            spawn_load_repos([s1 EXCEPT !.loading = TRUE], c, s1.load_id)
      [] s.screen = "RepoView" ->
            IF IsSome(s.current_repo)
            THEN spawn_load_tab([s1 EXCEPT !.loading = TRUE], c, TabF(s.repo_tab),
                                Unwrap(s.current_repo), s1.load_id)
            ELSE Only(s1)
      [] s.screen = "PrDetail" ->
            IF IsSome(s.current_repo) /\ IsSome(s.current_pr)
            THEN spawn_load_pr_detail(s1, c, Unwrap(s.current_repo),
                                      Unwrap(s.current_pr).number, s1.load_id)
            ELSE Only(s1)
      [] s.screen = "CommitDetail" ->
            IF IsSome(s.current_repo) /\ IsSome(s.current_commit)
            THEN spawn_load_commit_detail(s1, c, Unwrap(s.current_repo),
                                          Unwrap(s.current_commit).sha, s1.load_id)
            ELSE Only(s1)

-----------------------------------------------------------------------------
(* Search.  Text is a sequence of one-character strings. *)

\* char::to_lowercase on the characters of the model
Lower(c) == IF c = "A" THEN "a" ELSE IF c = "B" THEN "b" ELSE c
to_lowercase(text) == [i \in 1..Len(text) |-> Lower(text[i])]

\* str::contains
contains(text, q) ==
    \E i \in 0..(Len(text) - Len(q)) : SubSeq(text, i + 1, i + Len(q)) = q

\* the searched fields of the n-th item of a remote list (title, author)
Fields(item) ==
    {IF item.n % 2 = 1 THEN <<"A", "b">> ELSE <<"b", "b">>,
     IF item.n = 2 THEN <<"a">> ELSE <<>>}

ItemMatches(item, q) == \E text \in Fields(item) : contains(to_lowercase(text), q)

\* .iter().enumerate().filter(..).map(|(i, _)| i).collect(), from item i on
RECURSIVE MatchesFrom(_, _, _)
MatchesFrom(list, q, i) ==
    IF i > Len(list) THEN <<>>
    ELSE (IF ItemMatches(list[i], q) THEN <<i - 1>> ELSE <<>>)
            \o MatchesFrom(list, q, i + 1)

\* the i-th line (from 0) of a PR body, a commit message or a patch
DocLine(i) == IF i % 2 = 0 THEN <<"a", "A", "b">> ELSE <<"b">>

\* str::find from byte `start` on: the least position, or -1
Find(lower, q, start) ==
    LET hits == {i \in start..(Len(lower) - Len(q)) :
                    SubSeq(lower, i + 1, i + Len(q)) = q}
    IN  IF hits = {} THEN -1 ELSE CHOOSE i \in hits : \A j \in hits : i <= j

\* the while-let loop over one line: (line_idx, byte_start, byte_end) of
\* every occurrence, each search resuming at the end of the previous one
RECURSIVE LineMatches(_, _, _, _)
LineMatches(lower, q, start, line_idx) ==
    LET pos == Find(lower, q, start)
    IN  IF pos < 0 THEN <<>>
        ELSE <<<<line_idx, pos, pos + Len(q)>>>>
                \o LineMatches(lower, q, pos + Len(q), line_idx)

\* the matches of n consecutive lines, the first one being line line_idx
RECURSIVE LinesMatches(_, _, _, _)
LinesMatches(n, q, k, line_idx) ==
    IF k >= n THEN <<>>
    ELSE LineMatches(to_lowercase(DocLine(k)), q, 0, line_idx + k)
            \o LinesMatches(n, q, k + 1, line_idx)

\* the loop over commit.files, from line line_idx on
RECURSIVE FilesMatches(_, _, _)
FilesMatches(files, q, line_idx) ==
    IF files = <<>> THEN <<>>
    ELSE LET patch == Head(files)
             n == IF patch >= 0 THEN patch ELSE 0
         IN  LinesMatches(n, q, 0, line_idx + 1)
                \o FilesMatches(Tail(files), q, line_idx + 1 + n + 1)

\* the search that forgets the blank line after the commit message
recompute_no_blank(s) ==
    LET query == to_lowercase(s.search.query) IN
    IF query = <<>>
    THEN [s EXCEPT !.search.match_indices = <<>>, !.search.content_matches = <<>>]
    ELSE LET s1 ==
                CASE s.screen = "PrDetail" ->
                        [s EXCEPT !.search.content_matches =
                            IF IsSome(s.current_pr)
                            THEN LinesMatches(Unwrap(s.current_pr).lines, query, 0, 0)
                            ELSE <<>>]
                  [] s.screen = "CommitDetail" ->
                        [s EXCEPT !.search.content_matches =
                            IF IsSome(s.current_commit)
                            THEN LET c == Unwrap(s.current_commit)
                                 IN  LinesMatches(c.msg, query, 0, 5)
                                        \o FilesMatches(c.files, query, 5 + c.msg)
                            ELSE <<>>]
                  [] OTHER ->
                        [s EXCEPT !.search.match_indices =
                            MatchesFrom(s[ShownF(s).list], query, 1)]
         IN  [s1 EXCEPT !.search.current_match = 0]

recompute_search_matches(s) ==
    LET query == to_lowercase(s.search.query) IN
    IF query = <<>>
    THEN [s EXCEPT !.search.match_indices = <<>>, !.search.content_matches = <<>>]
    ELSE LET s1 ==
                CASE s.screen = "PrDetail" ->
                        [s EXCEPT !.search.content_matches =
                            IF IsSome(s.current_pr)
                            THEN LinesMatches(Unwrap(s.current_pr).lines, query, 0, 0)
                            ELSE <<>>]
                  [] s.screen = "CommitDetail" ->
                        [s EXCEPT !.search.content_matches =
                            IF IsSome(s.current_commit)
                            THEN LET c == Unwrap(s.current_commit)
                                 IN  LinesMatches(c.msg, query, 0, 5)
                                        \o FilesMatches(c.files, query, 5 + c.msg + 1)
                            ELSE <<>>]
                  [] OTHER ->
                        [s EXCEPT !.search.match_indices =
                            MatchesFrom(s[ShownF(s).list], query, 1)]
         IN  [s1 EXCEPT !.search.current_match = 0]

jump_to_current_match(s) ==
    LET m == Get(s.search.match_indices, s.search.current_match)
    IN  IF IsSome(m) /\ ~OnDetail(s)
        THEN [s EXCEPT ![ShownF(s).idx] = Unwrap(m)] ELSE s

jump_to_content_match(s) ==
    LET m == Get(s.search.content_matches, s.search.current_match)
    IN  IF IsSome(m) THEN [s EXCEPT !.scroll_offset = SatSub(Unwrap(m)[1], 5)] ELSE s

OnEnterSearchMode(s) ==
    Only([s EXCEPT !.input_mode = "Search", !.search.query = <<>>,
                   !.search.match_indices = <<>>, !.search.content_matches = <<>>,
                   !.search.current_match = 0])

OnExitSearchMode(s) ==
    Only([s EXCEPT !.input_mode = "Normal",
                   !.search.active = IF s.search.query # <<>> THEN TRUE ELSE @])

OnSearchInput(s, a) ==
    Only(recompute_search_matches([s EXCEPT !.search.query = Append(@, a.ch)]))

\* SearchBackspace that leaves an emptied search active
OnSearchBackspaceLive(s) ==
    LET q == IF s.search.query = <<>> THEN <<>>
             ELSE SubSeq(s.search.query, 1, Len(s.search.query) - 1)
        s1 == [s EXCEPT !.search.query = q]
    IN  IF q = <<>>
        THEN Only([s1 EXCEPT !.search.match_indices = <<>>,
                             !.search.content_matches = <<>>])
        ELSE Only(recompute_search_matches(s1))

OnSearchBackspace(s) ==
    LET q == IF s.search.query = <<>> THEN <<>>
             ELSE SubSeq(s.search.query, 1, Len(s.search.query) - 1)
        s1 == [s EXCEPT !.search.query = q]
    IN  IF q = <<>>
        THEN Only([s1 EXCEPT !.search.match_indices = <<>>,
                             !.search.content_matches = <<>>,
                             !.search.active = FALSE])
        ELSE Only(recompute_search_matches(s1))

OnSearchConfirm(s) ==
    LET s1 == [s EXCEPT !.input_mode = "Normal"]
    IN  IF s.search.query # <<>>
        THEN Only(jump_to_current_match([s1 EXCEPT !.search.active = TRUE]))
        ELSE Only(s1)

\* SearchNext that stops at the last match
OnSearchNextStops(s) ==
    LET n == Len(s.search.match_indices)
        m == Len(s.search.content_matches)
    IN  IF n > 0
        THEN Only(jump_to_current_match(
                    [s EXCEPT !.search.current_match = IF @ + 1 < n THEN @ + 1 ELSE @]))
        ELSE IF m > 0
        THEN Only(jump_to_content_match(
                    [s EXCEPT !.search.current_match = IF @ + 1 < m THEN @ + 1 ELSE @]))
        ELSE Only(s)

OnSearchNext(s) ==
    LET n == Len(s.search.match_indices)
        m == Len(s.search.content_matches)
    IN  IF n > 0
        THEN Only(jump_to_current_match(
                    [s EXCEPT !.search.current_match = (@ + 1) % n]))
        ELSE IF m > 0
        THEN Only(jump_to_content_match(
                    [s EXCEPT !.search.current_match = (@ + 1) % m]))
        ELSE Only(s)

OnSearchPrev(s) ==
    LET n == Len(s.search.match_indices)
        m == Len(s.search.content_matches)
    IN  IF n > 0
        THEN Only(jump_to_current_match(
                    [s EXCEPT !.search.current_match = IF @ = 0 THEN n - 1 ELSE @ - 1]))
        ELSE IF m > 0
        THEN Only(jump_to_content_match(
                    [s EXCEPT !.search.current_match = IF @ = 0 THEN m - 1 ELSE @ - 1]))
        ELSE Only(s)

OnClearSearch(s) == Only([s EXCEPT !.search = DefaultSearch])

-----------------------------------------------------------------------------
(* Pager, popups, confirmation, calls that change the remote *)

OnViewDiff(s) ==
    IF ~IsSome(s.current_repo) THEN Only(s)
    ELSE CASE s.screen = "PrDetail" /\ IsSome(s.current_pr) ->
                Eff(s, <<>>, <<CallUnit("load_pr_diff", Unwrap(s.current_repo),
                                        Unwrap(s.current_pr).number, "")>>)
           [] s.screen = "CommitDetail" /\ IsSome(s.current_commit) ->
                Eff(s, <<Act("SuspendForPager")>>, <<>>)
           [] OTHER -> Only(s)

MergeMethodItems == <<"Merge commit", "Squash and merge", "Rebase and merge">>
ReviewItems == <<"Approve", "Request changes", "Comment">>

OnShowMergeMethodSelect(s) ==
    Only([s EXCEPT !.input_mode = "SelectPopup", !.popup_title = "Merge Method",
                   !.popup_items = MergeMethodItems, !.popup_index = 0])

OnShowReviewSelect(s) ==
    Only([s EXCEPT !.input_mode = "SelectPopup", !.popup_title = "Submit Review",
                   !.popup_items = ReviewItems, !.popup_index = 0])

OnShowConfirm(s, a) ==
    Only([s EXCEPT !.confirm_action = a.arg, !.input_mode = "Confirm"])

spawn_confirmed(s, confirm) ==
    IF IsSome(s.current_repo)
    THEN CASE confirm.op = "ClosePr" ->
                <<CallUnit("close_pr", Unwrap(s.current_repo), confirm.number, "")>>
           [] confirm.op = "MergePr" ->
                <<CallUnit("merge_pr", Unwrap(s.current_repo), confirm.number,
                           confirm.method)>>
           [] confirm.op = "CloseIssue" ->
                <<CallUnit("close_issue", Unwrap(s.current_repo), confirm.number, "")>>
    ELSE <<>>

\* ConfirmYes that keeps the request
OnConfirmYesSticky(s) ==
    IF IsSome(s.confirm_action)
    THEN Eff([s EXCEPT !.input_mode = "Normal"], <<>>,
             spawn_confirmed(s, Unwrap(s.confirm_action)))
    ELSE Only(s)

OnConfirmYes(s) ==
    IF IsSome(s.confirm_action)
    THEN Eff([s EXCEPT !.confirm_action = None, !.input_mode = "Normal"], <<>>,
             spawn_confirmed(s, Unwrap(s.confirm_action)))
    ELSE Only(s)

OnConfirmNo(s) == Only([s EXCEPT !.confirm_action = None, !.input_mode = "Normal"])

OnPopupUp(s) == Only(IF s.popup_index > 0 THEN [s EXCEPT !.popup_index = @ - 1] ELSE s)

\* PopupDown that wraps around
OnPopupDownWrap(s) ==
    Only([s EXCEPT !.popup_index =
            IF @ < SatSub(Len(s.popup_items), 1) THEN @ + 1 ELSE 0])

OnPopupDown(s) ==
    Only(IF s.popup_index < SatSub(Len(s.popup_items), 1)
         THEN [s EXCEPT !.popup_index = @ + 1] ELSE s)

MergeMethodOf(index) ==
    CASE index = 0 -> "Merge" [] index = 1 -> "Squash" [] OTHER -> "Rebase"
ReviewEventOf(index) ==
    CASE index = 0 -> "Approve" [] index = 1 -> "RequestChanges" [] OTHER -> "Comment"

\* PopupSelect that merges at once
OnPopupSelectDirect(s) ==
    LET s1 == [s EXCEPT !.input_mode = "Normal"] IN
    IF s.popup_title = "Merge Method" /\ IsSome(s.current_pr) /\ IsSome(s.current_repo)
    THEN Eff(s1, <<>>, <<CallUnit("merge_pr", Unwrap(s.current_repo),
                                  Unwrap(s.current_pr).number,
                                  MergeMethodOf(s.popup_index))>>)
    ELSE Only(s1)

OnPopupSelect(s) ==
    LET s1 == [s EXCEPT !.input_mode = "Normal"] IN
    CASE s.popup_title = "Merge Method" ->
            IF IsSome(s.current_pr)
            THEN Eff(s1, <<ShowConfirm(ConfirmAction("MergePr",
                                Unwrap(s.current_pr).number,
                                MergeMethodOf(s.popup_index)))>>, <<>>)
            ELSE Only(s1)
      [] s.popup_title = "Submit Review" ->
            IF IsSome(s.current_repo) /\ IsSome(s.current_pr)
            THEN Eff(s1, <<SuspendForEditor(EditorContext("ReviewPr",
                                Unwrap(s.current_repo), Unwrap(s.current_pr).number,
                                ReviewEventOf(s.popup_index)))>>, <<>>)
            ELSE Only(s1)
      [] OTHER -> Only(s1)

\* PrMerged, PrClosed
\* flash_message = Some((text, Instant::now())): age is the whole seconds
\* since that instant
flash(s, text) == [s EXCEPT !.flash_message = Some([text |-> text, age |-> 0])]

\* current_item_url(..).is_some()
has_item_url(s) ==
    CASE s.screen \in {"Home", "RepoList"} -> IsSome(Get(s[ShownF(s).list], s[ShownF(s).idx]))
      [] s.screen = "RepoView" ->
            IsSome(s.current_repo) /\ IsSome(Get(s[ShownF(s).list], s[ShownF(s).idx]))
      [] s.screen = "PrDetail" -> IsSome(s.current_repo) /\ IsSome(s.current_pr)
      [] s.screen = "CommitDetail" -> IsSome(s.current_repo) /\ IsSome(s.current_commit)

\* ok: the clipboard took the text
OnYankUrl(s, ok) == Only(IF has_item_url(s) /\ ok THEN flash(s, "URL copied!") ELSE s)

OnPrDone(s, a) ==
    Eff(flash(s, IF a.kind = "PrMerged" THEN "PR merged!" ELSE "PR closed."),
        <<Act("Back")>>, <<>>)
OnIssueClosed(s) == Eff(flash(s, "Issue closed."), <<Act("Refresh")>>, <<>>)
OnCommentPosted(s) == Only(flash(s, "Comment posted."))
OnReviewSubmitted(s) == Only(flash(s, "Review submitted."))

\* the end of update: a flash message older than 3 seconds is dropped
expire_flash(s) ==
    IF IsSome(s.flash_message) /\ Unwrap(s.flash_message).age > FLASH_SECS
    THEN [s EXCEPT !.flash_message = None] ELSE s

-----------------------------------------------------------------------------
(* App::update, the load results: applied under the generation filter *)

TagIgnored(s, a) == TRUE
TagMatches(s, a) == a.load_id = s.load_id

HasMoreIfAny(len) == len > 0
HasMore(len) == len = PAGE_SIZE

OnHomeLoaded(s, a) ==
    IF TagMatches(s, a)
    THEN LET rr == Items(a.src, 1, a.len)
             mp == Items(a.src, 1, a.len2)
         IN  Only([s EXCEPT !.loading = FALSE,
                            !.review_requests = rr, !.my_prs = mp,
                            !.review_index = Min(@, SatSub(Len(rr), 1)),
                            !.my_pr_index = Min(@, SatSub(Len(mp), 1))])
    ELSE Only(s)

\* the payload replaces the list whatever its tag
list_loaded_unfiltered(s, a, f) ==
    LET items == PayloadOf(a)
    IN  Only([s EXCEPT !.loading = FALSE,
                       ![f.pag] = [page |-> 1, has_more |-> HasMore(Len(items)),
                                   loading_more |-> FALSE],
                       ![f.list] = items,
                       ![f.idx] = Min(@, SatSub(Len(items), 1))])

\* ReposLoaded, PrsLoaded, IssuesLoaded, CommitsLoaded, ActionRunsLoaded
list_loaded(s, a, f) ==
    IF TagMatches(s, a)
    THEN LET items == PayloadOf(a)
         IN  Only([s EXCEPT !.loading = FALSE,
                            ![f.pag] = [page |-> 1, has_more |-> HasMore(Len(items)),
                                        loading_more |-> FALSE],
                            ![f.list] = items,
                            ![f.idx] = Min(@, SatSub(Len(items), 1))])
    ELSE Only(s)

\* the page replaces the list
list_appended_alone(s, a, f) ==
    IF TagMatches(s, a)
    THEN LET items == PayloadOf(a)
         IN  Only([s EXCEPT ![f.pag].loading_more = FALSE,
                            ![f.pag].has_more = HasMore(Len(items)),
                            ![f.list] = items])
    ELSE Only(s)

\* ReposAppended, PrsAppended, IssuesAppended, CommitsAppended, ActionRunsAppended
list_appended(s, a, f) ==
    IF TagMatches(s, a)
    THEN LET items == PayloadOf(a)
         IN  Only([s EXCEPT ![f.pag].loading_more = FALSE,
                            ![f.pag].has_more = HasMore(Len(items)),
                            ![f.list] = @ \o items])
    ELSE Only(s)

AnyArrival(s, detail_screen) == TRUE
FirstArrival(s, detail_screen) == s.screen # detail_screen

OnPrDetailLoaded(s, a) ==
    IF TagMatches(s, a)
    THEN LET s1 == [s EXCEPT !.loading = FALSE, !.current_pr = a.detail]
         IN  Only(IF FirstArrival(s, "PrDetail")
                  THEN [s1 EXCEPT !.prev_screen = Some(s.screen),
                                  !.scroll_offset = 0, !.screen = "PrDetail"]
                  ELSE s1)
    ELSE Only(s)

OnCommitDetailLoaded(s, a) ==
    IF TagMatches(s, a)
    THEN LET s1 == [s EXCEPT !.loading = FALSE, !.current_commit = a.detail]
         IN  Only(IF FirstArrival(s, "CommitDetail")
                  THEN [s1 EXCEPT !.prev_screen = Some(s.screen),
                                  !.scroll_offset = 0, !.screen = "CommitDetail"]
                  ELSE s1)
    ELSE Only(s)

\* Error that also empties the list shown
OnErrorBlank(s, a) ==
    Only([s EXCEPT !.loading = FALSE, !.error = Some(a.ch),
                   ![ShownF(s).list] = <<>>])

OnError(s, a) == Only([s EXCEPT !.loading = FALSE, !.error = Some(a.ch)])

LoadedKinds == {f.loaded : f \in PagedLists}
AppendedKinds == {f.appended : f \in PagedLists}
FOfLoaded(kind) == CHOOSE f \in PagedLists : f.loaded = kind
FOfAppended(kind) == CHOOSE f \in PagedLists : f.appended = kind

arm(s, c, a, ok) ==
    CASE a.kind = "Quit" -> OnQuit(s)
      [] a.kind = "Back" -> OnBack(s)
      [] a.kind = "ScrollUp" -> OnScrollUp(s)
      [] a.kind = "ScrollDown" -> OnScrollDown(s)
      [] a.kind = "GoToTop" -> OnGoToTop(s)
      [] a.kind = "GoToBottom" -> OnGoToBottom(s)
      [] a.kind = "PageUp" -> OnPageUp(s)
      [] a.kind = "PageDown" -> OnPageDown(s)
      [] a.kind = "NextTab" -> OnNextTab(s, c)
      [] a.kind = "PrevTab" -> OnPrevTab(s, c)
      [] a.kind = "Select" -> OnSelect(s, c)
      [] a.kind = "LoadHome" -> OnLoadHome(s, c)
      [] a.kind = "HomeLoaded" -> OnHomeLoaded(s, a)
      [] a.kind = "SwitchRepoTab" -> OnSwitchRepoTab(s, c, a)
      [] a.kind \in LoadedKinds -> list_loaded(s, a, FOfLoaded(a.kind))
      [] a.kind = "PrDetailLoaded" -> OnPrDetailLoaded(s, a)
      [] a.kind = "CommitDetailLoaded" -> OnCommitDetailLoaded(s, a)
      [] a.kind \in AppendedKinds -> list_appended(s, a, FOfAppended(a.kind))
      [] a.kind = "Refresh" -> OnRefresh(s, c)
      [] a.kind = "Error" -> OnError(s, a)
      [] a.kind = "EnterSearchMode" -> OnEnterSearchMode(s)
      [] a.kind = "ExitSearchMode" -> OnExitSearchMode(s)
      [] a.kind = "SearchInput" -> OnSearchInput(s, a)
      [] a.kind = "SearchBackspace" -> OnSearchBackspace(s)
      [] a.kind = "SearchConfirm" -> OnSearchConfirm(s)
      [] a.kind = "SearchNext" -> OnSearchNext(s)
      [] a.kind = "SearchPrev" -> OnSearchPrev(s)
      [] a.kind = "ClearSearch" -> OnClearSearch(s)
      [] a.kind = "ViewDiff" -> OnViewDiff(s)
      [] a.kind = "ShowMergeMethodSelect" -> OnShowMergeMethodSelect(s)
      [] a.kind = "ShowReviewSelect" -> OnShowReviewSelect(s)
      [] a.kind = "ShowConfirm" -> OnShowConfirm(s, a)
      [] a.kind = "ConfirmYes" -> OnConfirmYes(s)
      [] a.kind = "ConfirmNo" -> OnConfirmNo(s)
      [] a.kind = "PopupUp" -> OnPopupUp(s)
      [] a.kind = "PopupDown" -> OnPopupDown(s)
      [] a.kind = "PopupSelect" -> OnPopupSelect(s)
      [] a.kind = "YankUrl" -> OnYankUrl(s, ok)
      [] a.kind \in {"PrMerged", "PrClosed"} -> OnPrDone(s, a)
      [] a.kind = "IssueClosed" -> OnIssueClosed(s)
      [] a.kind = "CommentPosted" -> OnCommentPosted(s)
      [] a.kind = "ReviewSubmitted" -> OnReviewSubmitted(s)
      [] OTHER -> Only(s)

\* App::update: the banner, the match arm, the flash message
update(s0, c, a, ok) ==
    LET eff == arm(clear_error(s0, a), c, a, ok)
    IN  [eff EXCEPT !.app = expire_flash(@)]

-----------------------------------------------------------------------------
(* handle_key in Normal mode: one action per key, from the state at the    *)
(* time the key is read.                                                   *)

\* KeyCode::Char(c), without modifiers
CharKeys == {"q", "j", "k", "g", "G", "h", "l", "r", "p", "i", "c", "a", "/", "n",
             "N", "d", "o", "y", "m", "x", "C", "R", "b", "A"}
Keys == CharKeys \cup {"Up", "Down", "PageDown", "PageUp", "Enter", "Esc", "Backspace",
                      "Ctrl-c"}

\* Event::is_quit (src/event.rs:11)
is_quit(key) == key = "Ctrl-c"

handle_key_normal(s, key) ==
    CASE key = "q" -> IF s.screen = "Home" THEN Act("Quit") ELSE Act("Back")
      [] key = "Esc" ->
            IF s.search.active THEN Act("ClearSearch")
            ELSE IF s.screen = "Home" THEN Act("Quit") ELSE Act("Back")
      [] key = "/" -> Act("EnterSearchMode")
      [] key = "n" /\ s.search.active -> Act("SearchNext")
      [] key = "N" /\ s.search.active -> Act("SearchPrev")
      [] key \in {"j", "Down"} -> Act("ScrollDown")
      [] key \in {"k", "Up"} -> Act("ScrollUp")
      [] key = "g" -> Act("GoToTop")
      [] key = "G" -> Act("GoToBottom")
      [] key = "PageDown" -> Act("PageDown")
      [] key = "PageUp" -> Act("PageUp")
      [] key = "h" -> Act("PrevTab")
      [] key = "l" -> Act("NextTab")
      [] key = "Enter" -> Act("Select")
      [] key = "d" /\ OnDetail(s) -> Act("ViewDiff")
      [] key = "r" -> Act("Refresh")
      [] key = "o" -> Act("OpenInBrowser")
      [] key = "y" -> Act("YankUrl")
      [] key = "m" /\ s.screen = "PrDetail" -> Act("ShowMergeMethodSelect")
      [] key = "x" /\ s.screen = "PrDetail" ->
            IF IsSome(s.current_pr)
            THEN ShowConfirm(ConfirmAction("ClosePr", Unwrap(s.current_pr).number, ""))
            ELSE Act("None")
      [] key = "x" /\ s.screen = "RepoView" /\ s.repo_tab = "Issues" ->
            IF IsSome(Get(s.issues, s.issue_index))
            THEN ShowConfirm(ConfirmAction("CloseIssue",
                                Unwrap(Get(s.issues, s.issue_index)).n, ""))
            ELSE Act("None")
      [] key = "C" /\ s.screen = "PrDetail" ->
            IF IsSome(s.current_repo) /\ IsSome(s.current_pr)
            THEN SuspendForEditor(EditorContext("CommentOnPr", Unwrap(s.current_repo),
                                    Unwrap(s.current_pr).number, ""))
            ELSE Act("None")
      [] key = "C" /\ s.screen = "RepoView" /\ s.repo_tab = "Issues" ->
            IF IsSome(s.current_repo) /\ IsSome(Get(s.issues, s.issue_index))
            THEN SuspendForEditor(EditorContext("CommentOnIssue", Unwrap(s.current_repo),
                                    Unwrap(Get(s.issues, s.issue_index)).n, ""))
            ELSE Act("None")
      [] key = "R" /\ s.screen = "PrDetail" -> Act("ShowReviewSelect")
      [] key = "p" /\ s.screen = "RepoView" -> TabAct("PullRequests")
      [] key = "i" /\ s.screen = "RepoView" -> TabAct("Issues")
      [] key = "c" /\ s.screen = "RepoView" -> TabAct("Commits")
      [] key = "a" /\ s.screen = "RepoView" -> TabAct("Actions")
      [] OTHER -> Act("None")

handle_key_search(key) ==
    CASE key = "Esc" -> Act("ExitSearchMode")
      [] key = "Enter" -> Act("SearchConfirm")
      [] key = "Backspace" -> Act("SearchBackspace")
      [] key \in CharKeys -> CharAct(key)
      [] OTHER -> Act("None")

\* a Confirm mode that lets q through
handle_key_confirm_loose(key) ==
    CASE key = "y" -> Act("ConfirmYes")
      [] key \in {"n", "Esc"} -> Act("ConfirmNo")
      [] key = "q" -> Act("Back")
      [] OTHER -> Act("None")

handle_key_confirm(key) ==
    CASE key = "y" -> Act("ConfirmYes")
      [] key \in {"n", "Esc"} -> Act("ConfirmNo")
      [] OTHER -> Act("None")

handle_key_popup(key) ==
    CASE key \in {"j", "Down"} -> Act("PopupDown")
      [] key \in {"k", "Up"} -> Act("PopupUp")
      [] key = "Enter" -> Act("PopupSelect")
      [] key = "Esc" -> Act("ConfirmNo")
      [] OTHER -> Act("None")

handle_key(s, key) ==
    CASE s.input_mode = "Normal" -> handle_key_normal(s, key)
      [] s.input_mode = "Search" -> handle_key_search(key)
      [] s.input_mode = "Confirm" -> handle_key_confirm(key)
      [] s.input_mode = "SelectPopup" -> handle_key_popup(key)

\* App::handle_event: only a key is translated
handle_event(s, event) == IF event \in Keys THEN handle_key(s, event) ELSE Act("None")

UserKinds == {"Quit", "Back", "ScrollUp", "ScrollDown", "GoToTop", "GoToBottom",
              "PageUp", "PageDown", "NextTab", "PrevTab", "Select", "Refresh",
              "SwitchRepoTab"}

\* the actions on the channel that come from a key
PendingKeys(ch) == Cardinality({i \in 1..Len(ch) : ch[i].from # ""})

-----------------------------------------------------------------------------------------------------------------------------------------------------
(* The surroundings of a session.  The user first walks to one screen, one *)
(* key at a time, waiting for each answer (env.script, the steps left);    *)
(* from there on any of env.keys may be pressed at any time and every      *)
(* outstanding call may succeed or fail at any time.  env.cap bounds       *)
(* load_id.                                                                *)

StepKey(key) == [op |-> "key", key |-> key, len |-> 0]
StepRecv == [op |-> "recv", key |-> "", len |-> 0]
StepOk(len) == [op |-> "ok", key |-> "", len |-> len]
StepErr == [op |-> "err", key |-> "", len |-> 0]

Scripted == env.script # <<>>
\* the step is the one the walk asks for, or the walk is over
Walk(op) == Scripted => Head(env.script).op = op
Advance(load_id) ==
    env' = IF Scripted
           THEN [env EXCEPT !.script = Tail(@),
                            !.cap = IF Tail(env.script) = <<>>
                                    THEN load_id + env.loads ELSE @]
           ELSE env

-----------------------------------------------------------------------------
(* The main loop (src/main.rs:184) and the background units *)

Idle == Act("None")

\* a key event is read and translated; the action is sent on the channel
KeyEvent ==
    /\ running
    /\ Walk("key")
    /\ Scripted \/ (PendingKeys(chan) < env.ahead /\ Len(chan) < MaxChan)
    /\ \E key \in (IF Scripted THEN {Head(env.script).key} ELSE env.keys) :
          IF is_quit(key)
          THEN running' = FALSE /\ chan' = chan
          ELSE LET a == handle_key(app, key)
               IN  /\ a.kind # "None"
                   /\ a.kind = "SearchInput" => Len(app.search.query) < MaxQuery
                   /\ chan' = Append(chan, [a EXCEPT !.from = app.input_mode])
                   /\ running' = running
    /\ last' = Idle
    /\ Advance(app.load_id)
    /\ UNCHANGED <<app, tasks, cache, term>>

RECURSIVE SeqToBag(_)
SeqToBag(seq) ==
    IF seq = <<>> THEN EmptyBag ELSE SetToBag({Head(seq)}) (+) SeqToBag(Tail(seq))

\* the next action is received from the channel and App::update applies it
CallResult(unit) ==
    CASE unit = "load_pr_diff" -> Act("SuspendForPager")
      [] unit = "close_pr" -> Act("PrClosed")
      [] unit = "merge_pr" -> Act("PrMerged")
      [] unit = "close_issue" -> Act("IssueClosed")
      [] unit = "comment" -> Act("CommentPosted")
      [] unit = "submit_review" -> Act("ReviewSubmitted")
CallUnits == {"load_pr_diff", "close_pr", "merge_pr", "close_issue", "comment",
              "submit_review"}

\* the calls outstanding that are no loads of a screen
Calls(bag) ==
    BagCardinality([t \in {u \in BagToSet(bag) : u.unit \in CallUnits} |->
                        CopiesIn(t, bag)])

\* what the loop does with a received action: SuspendForPager and
\* SuspendForEditor never reach App::update; after the editor a comment or
\* a review is sent if a body was written (body: whether one was)
Received(s, c, a, body) ==
    CASE a.kind = "SuspendForPager" -> Only(s)
      [] a.kind = "SuspendForEditor" ->
            LET ctx == Unwrap(a.arg) IN
            IF ~body THEN Only(s)
            ELSE IF ctx.op = "ReviewPr"
            THEN Eff(s, <<>>, <<CallUnit("submit_review", ctx.repo, ctx.number,
                                         ctx.event)>>)
            ELSE Eff(s, <<>>, <<CallUnit("comment", ctx.repo, ctx.number, "")>>)
      [] OTHER -> update(s, c, a, body)

Recv ==
    /\ running
    /\ Walk("recv")
    /\ chan # <<>>
    /\ \E body \in (IF Head(chan).kind \in {"SuspendForEditor", "YankUrl"}
                    THEN BOOLEAN ELSE {FALSE}) :
       LET eff == Received(app, cache, Head(chan), body)
       IN  /\ Scripted \/ eff.app.load_id <= env.cap
           /\ Calls(tasks (+) SeqToBag(eff.spawned)) <= MaxCalls
           /\ app' = eff.app
           /\ chan' = Tail(chan) \o eff.sent
           /\ tasks' = tasks (+) SeqToBag(eff.spawned)
           /\ Advance(eff.app.load_id)
           /\ running' = ~eff.app.should_quit
    /\ last' = Head(chan)
    /\ UNCHANGED <<cache, term>>

IsFullLoad(t) == t.unit \in {f.unit : f \in PagedLists}
IsPageLoad(t) == t.unit \in {f.page_unit : f \in PagedLists}
FOfUnit(unit) == CHOOSE f \in PagedLists : unit \in {f.unit, f.page_unit}

\* a unit that ends without a word
FinishSilent(t, c, sent) ==
    /\ tasks' = tasks (-) SetToBag({t})
    /\ cache' = c
    /\ chan' = chan
    /\ last' = Idle
    /\ Advance(app.load_id)
    /\ UNCHANGED <<app, running, term>>

Finish(t, c, sent) ==
    /\ Scripted \/ Len(chan) < MaxChan
    /\ tasks' = tasks (-) SetToBag({t})
    /\ cache' = c
    /\ chan' = Append(chan, sent)
    /\ last' = Idle
    /\ Advance(app.load_id)
    /\ UNCHANGED <<app, running, term>>

\* the lengths the remote call of unit t may return
Answers(t) == IF Scripted THEN {Head(env.script).len} ELSE NetLens(t.page)

\* a background unit's remote call succeeds: the payload is written to the
\* cache (full loads only) and sent as the unit's result
NetOk ==
    /\ running
    /\ Walk("ok")
    /\ \E t \in BagToSet(tasks) :
        CASE t.unit = "load_home" ->
                \E n \in HomeLens, m \in HomeLens :
                    Finish(t, CacheWrite(cache, Key("home", 0, 0),
                                         Entry(t.load_id, n, m, None)),
                           HomeAct(t.load_id, n, m, t.load_id))
          [] IsFullLoad(t) ->
                \E n \in Answers(t) :
                    LET f == FOfUnit(t.unit)
                    IN  Finish(t, CacheWrite(cache, Key(f.ck, t.repo, 0),
                                             Entry(t.load_id, n, 0, None)),
                               ListAct(f.loaded, t.load_id, 1, n, t.load_id))
          [] IsPageLoad(t) ->
                \E n \in Answers(t) :
                    Finish(t, cache,
                           ListAct(FOfUnit(t.unit).appended, t.load_id, t.page, n,
                                   t.load_id))
          [] t.unit = "load_pr_detail" ->
                \E n \in PrBodyLines :
                    LET rec == PrRecord(t.item, t.load_id, n)
                    IN  Finish(t, CacheWrite(cache, Key("pr", t.repo, t.item),
                                             Entry(t.load_id, 0, 0, Some(rec))),
                               DetailAct("PrDetailLoaded", rec, t.load_id))
          [] t.unit = "load_commit_detail" ->
                \E sh \in CommitShapes :
                    LET rec == CommitRecord(t.item, t.load_id, sh)
                    IN  Finish(t, CacheWrite(cache, Key("commit", t.repo, t.item),
                                             Entry(t.load_id, 0, 0, Some(rec))),
                               DetailAct("CommitDetailLoaded", rec, t.load_id))
          [] t.unit \in CallUnits -> Finish(t, cache, CallResult(t.unit))

\* a background unit's remote call fails: it sends Error
NetErr ==
    /\ running
    /\ Walk("err")
    /\ \E t \in BagToSet(tasks) : Finish(t, cache, ErrorAct(t.unit))

Next ==
    \/ KeyEvent
    \/ Recv
    \/ NetOk
    \/ NetErr

\* Event::Tick: a second goes by in which the loop sees timer ticks only;
\* a tick becomes Action::None and nothing is sent to the reducer
Tick ==
    /\ running
    /\ ~Scripted
    /\ IsSome(app.flash_message)
    /\ Unwrap(app.flash_message).age < MaxFlashAge
    /\ handle_event(app, "Tick").kind = "None"
    /\ app' = [app EXCEPT !.flash_message = Some([Unwrap(@) EXCEPT !.age = @ + 1])]
    /\ last' = Idle
    /\ UNCHANGED <<chan, tasks, cache, env, running, term>>

NextTimed == Next \/ Tick

-----------------------------------------------------------------------------
(* Suspend and resume, step by step (src/main.rs:229-273, src/tui.rs).     *)
(* A key is a record of the key and of where the loop was when the key     *)
(* reached the terminal.                                                   *)

SuspendKinds == {"SuspendForPager", "SuspendForEditor"}

\* a key reaches the terminal
KeyArrives ==
    /\ running
    /\ ~Scripted
    /\ Len(term.tty) < MaxTty
    /\ \E key \in env.keys :
          term' = [term EXCEPT !.tty = Append(@, [key |-> key, at |-> term.phase])]
    /\ last' = Idle
    /\ UNCHANGED <<app, chan, tasks, cache, env, running>>

\* the EventHandler's task: reader.next() yields a key, tx.send(Event::Key)
ListenerReads ==
    /\ running
    /\ term.listener
    /\ term.tty # <<>>
    /\ Len(term.events) < MaxEvents
    /\ term' = [term EXCEPT !.tty = Tail(@), !.events = Append(@, Head(term.tty))]
    /\ last' = Idle
    /\ UNCHANGED <<app, chan, tasks, cache, env, running>>

\* a task that was aborted and has not stopped yet takes a key; the
\* receiver of its channel is gone and the key is lost
StaleReads ==
    /\ running
    /\ term.stopping
    /\ term.tty # <<>>
    /\ term' = [term EXCEPT !.tty = Tail(@)]
    /\ last' = Idle
    /\ UNCHANGED <<app, chan, tasks, cache, env, running>>

\* the aborted task reaches its next await and is dropped by the runtime
ListenerExits ==
    /\ running
    /\ term.stopping
    /\ term' = [term EXCEPT !.stopping = FALSE]
    /\ last' = Idle
    /\ UNCHANGED <<app, chan, tasks, cache, env, running>>

\* the pager or the editor reads a key
ChildReads ==
    /\ running
    /\ term.child
    /\ term.tty # <<>>
    /\ term' = [term EXCEPT !.tty = Tail(@)]
    /\ last' = Idle
    /\ UNCHANGED <<app, chan, tasks, cache, env, running>>

\* events.next(): the loop takes a key, translates it and sends the action
Translate ==
    /\ running
    /\ term.phase = "loop"
    /\ term.events # <<>>
    /\ Len(chan) < MaxChan
    /\ LET e == Head(term.events)
           a == handle_event(app, e.key)
       IN  /\ a.kind = "SearchInput" => Len(app.search.query) < MaxQuery
           /\ IF is_quit(e.key)
              THEN running' = FALSE /\ chan' = chan
              ELSE /\ running' = running
                   /\ chan' = IF a.kind = "None" THEN chan
                              ELSE Append(chan, [a EXCEPT !.from = app.input_mode])
           /\ term' = [term EXCEPT !.events = Tail(@),
                                   !.key = IF a.kind = "None" /\ ~is_quit(e.key)
                                           THEN @ ELSE Some(e)]
    /\ last' = Idle
    /\ UNCHANGED <<app, tasks, cache, env>>

\* action_rx.recv() of an action for the reducer
RecvLoop ==
    /\ ~Scripted
    /\ term.phase = "loop"
    /\ chan # <<>>
    /\ Head(chan).kind \notin SuspendKinds
    /\ Recv

\* action_rx.recv() of a suspend action, then drop(events): the task is
\* cancelled and aborted, not joined; the handler's channel goes with it
SuspendBegin ==
    /\ running
    /\ ~Scripted
    /\ term.phase = "loop"
    /\ chan # <<>>
    /\ Head(chan).kind \in SuspendKinds
    /\ chan' = Tail(chan)
    /\ last' = Head(chan)
    /\ term' = [term EXCEPT !.phase = "dropped", !.listener = FALSE,
                            !.stopping = TRUE, !.events = <<>>,
                            !.pending = Some(Head(chan))]
    /\ UNCHANGED <<app, tasks, cache, env, running>>

\* tui::restore
Restore ==
    /\ running
    /\ term.phase = "dropped"
    /\ term' = [term EXCEPT !.phase = "cooked", !.raw = FALSE]
    /\ last' = Idle
    /\ UNCHANGED <<app, chan, tasks, cache, env, running>>

\* pager::open_pager, open_editor: the child starts
StartChild ==
    /\ running
    /\ term.phase = "cooked"
    /\ term' = [term EXCEPT !.phase = "child", !.child = TRUE]
    /\ last' = Idle
    /\ UNCHANGED <<app, chan, tasks, cache, env, running>>

\* the child exits; a saved text that is not blank is posted
ChildExits ==
    /\ running
    /\ term.phase = "child"
    /\ LET a == Unwrap(term.pending) IN
       \E body \in (IF a.kind = "SuspendForEditor" THEN BOOLEAN ELSE {FALSE}) :
          LET eff == Received(app, cache, a, body)
          IN  /\ Calls(tasks (+) SeqToBag(eff.spawned)) <= MaxCalls
              /\ app' = eff.app
              /\ tasks' = tasks (+) SeqToBag(eff.spawned)
    /\ term' = [term EXCEPT !.phase = "exited", !.child = FALSE]
    /\ last' = Idle
    /\ UNCHANGED <<chan, cache, env, running>>

\* tui::init
Reinit ==
    /\ running
    /\ term.phase = "exited"
    /\ term' = [term EXCEPT !.phase = "raw", !.raw = TRUE]
    /\ last' = Idle
    /\ UNCHANGED <<app, chan, tasks, cache, env, running>>

\* drain_events that discards nothing
DrainNothing ==
    /\ running
    /\ term.phase = "raw"
    /\ term' = [term EXCEPT !.phase = "drained"]
    /\ last' = Idle
    /\ UNCHANGED <<app, chan, tasks, cache, env, running>>

\* tui::drain_events: every key waiting at the terminal is read and dropped
Drain ==
    /\ running
    /\ term.phase = "raw"
    /\ term' = [term EXCEPT !.phase = "drained", !.tty = <<>>]
    /\ last' = Idle
    /\ UNCHANGED <<app, chan, tasks, cache, env, running>>

\* EventHandler::new, continue
NewListener ==
    /\ running
    /\ term.phase = "drained"
    /\ term' = [term EXCEPT !.phase = "loop", !.listener = TRUE, !.pending = None]
    /\ last' = Idle
    /\ UNCHANGED <<app, chan, tasks, cache, env, running>>

NextSuspend ==
    \/ Scripted /\ KeyEvent
    \/ Scripted /\ Recv
    \/ NetOk
    \/ NetErr
    \/ KeyArrives
    \/ ListenerReads
    \/ StaleReads
    \/ ListenerExits
    \/ ChildReads
    \/ Translate
    \/ RecvLoop
    \/ SuspendBegin
    \/ Restore
    \/ StartChild
    \/ ChildExits
    \/ Reinit
    \/ Drain
    \/ NewListener

-----------------------------------------------------------------------------
(* Sessions.  Every session starts as main.rs starts it: App::new, with    *)
(* LoadHome on the channel.                                                *)

\* LoadHome is applied, the home load fails, the user reads the banner
ToHome == <<StepRecv, StepErr, StepRecv>>
\* LoadHome is applied and the home lists arrive
AtHome == <<StepRecv, StepOk(0), StepRecv>>
\* r on Home: the repository browser
ToRepoList == ToHome \o <<StepKey("r")>>
\* two repositories are listed
AtRepoList == ToRepoList \o <<StepRecv, StepOk(2), StepRecv>>
\* Enter opens the first one (on its PR tab)
ToRepoView == AtRepoList \o <<StepKey("Enter")>>
\* two PRs are listed
AtRepoView == ToRepoView \o <<StepRecv, StepOk(2), StepRecv>>
\* a full page of PRs is listed; q, j, and Enter opens the second repository
ToOtherRepo ==
    ToRepoView \o <<StepRecv, StepOk(PAGE_SIZE), StepRecv, StepKey("q"), StepRecv,
                    StepKey("j"), StepRecv, StepKey("Enter"), StepRecv>>
\* the PR load fails; a tab key
ToTab(key) == ToRepoView \o <<StepRecv, StepErr, StepRecv, StepKey(key)>>
\* Enter opens the first PR
ToPrDetail == AtRepoView \o <<StepKey("Enter")>>
\* two commits are listed; Enter opens the first one
ToCommitDetail == ToTab("c") \o <<StepRecv, StepOk(2), StepRecv, StepKey("Enter")>>

\* a cache that an earlier session left with one entry
OneEntry(key, e) == [k \in {key} |-> e]
\* ... with a full first page of a list
Warm(key) == OneEntry(key, Entry(0, PAGE_SIZE, 0, None))

ScrollKeys == {"j", "k", "g", "G", "PageDown", "PageUp"}
TabKeys == {"h", "l", "p", "i", "c", "a"}

\* ahead: how many keys the user types before the loop has applied them
Session(script, keys, c) ==
    [script |-> script, keys |-> keys, cap |-> 0, cache |-> c,
     ahead |-> MaxPendingKeys, loads |-> MaxLoads]
Hasty(session) == [session EXCEPT !.ahead = MaxTypeAhead]
\* a session that ends with the first load after the walk
Still(session) == [session EXCEPT !.loads = 0]
\* ... with the second
Once(session) == [session EXCEPT !.loads = 1]

\* the walk to each paginated list and the cache key of its first page
ListWalks ==
    {[script |-> ToRepoList, key |-> Key("repos", 0, 0)],
     [script |-> ToRepoView, key |-> Key("prs", 1, 0)],
     [script |-> ToTab("i"), key |-> Key("issues", 1, 0)],
     [script |-> ToTab("c"), key |-> Key("commits", 1, 0)],
     [script |-> ToTab("a"), key |-> Key("actions", 1, 0)]}

\* scrolling a list whose first page is in the cache: by jumps on every list,
\* line by line on the repository list
ScrollSessions ==
    {Session(w.script, {"G", "g", "PageDown", "PageUp"}, Warm(w.key)) : w \in ListWalks}
    \cup {Session(ToRepoList, {"j", "k", "G"}, Warm(Key("repos", 0, 0)))}
\* jumping to the end of a list and refreshing it
RefreshSessions ==
    {Session(w.script, {"G", "r"}, Warm(w.key)) :
        w \in {v \in ListWalks : v.key.k \in {"repos", "commits"}}}
\* only refreshing it, with and without a cached first page
ReloadSessions ==
    UNION {{Session(w.script, {"r"}, c) : c \in {EmptyCache, Warm(w.key)}} :
           w \in ListWalks}
\* moving between the screens and the tabs
NavSessions ==
    {Session(AtHome, {"q", "l", "Enter", "r"}, EmptyCache),
     Session(AtRepoList, {"q", "Enter", "r"}, EmptyCache),
     Session(AtRepoView, TabKeys \cup {"q", "Enter", "r"}, EmptyCache),
     Once(Session(ToOtherRepo, {"q", "G"}, EmptyCache)),
     Session(ToPrDetail, {"q", "r", "j", "G"}, EmptyCache),
     Session(ToPrDetail, {"q", "r", "j", "G"},
             OneEntry(Key("pr", 1, 1), Entry(0, 0, 0, Some(PrRecord(1, 0, 3))))),
     Session(ToCommitDetail, {"q", "r", "G"}, EmptyCache),
     Session(ToCommitDetail, {"q", "r", "G"},
             OneEntry(Key("commit", 1, 1),
                      Entry(0, 0, 0, Some(CommitRecord(1, 0, [msg |-> 1, files |-> <<>>])))))}

\* moving line by line on every list screen
EdgeSessions ==
    {Session(AtHome, {"j", "k", "l"}, EmptyCache)}
    \cup {Session(w.script, {"j", "k"}, EmptyCache) : w \in ListWalks}
    \cup {Session(ToTab("i"), {"j", "G"}, Warm(Key("issues", 1, 0)))}

\* the first PR is shown; the issues tab lists two issues
AtPrDetail == ToPrDetail \o <<StepRecv, StepOk(0), StepRecv>>
AtIssues == ToTab("i") \o <<StepRecv, StepOk(2), StepRecv>>
\* the first commit is shown
AtCommitDetail == ToCommitDetail \o <<StepRecv, StepOk(0), StepRecv>>

\* the first PR of a home list is shown; x, q, j and Enter are typed before
\* the loop has applied the first of them
TypedAhead ==
    AtHome \o <<StepKey("Enter"), StepRecv, StepOk(0), StepRecv,
                StepKey("x"), StepKey("q"), StepKey("j"), StepKey("Enter"),
                StepRecv, StepRecv, StepRecv, StepRecv>>

\* popups, confirmations and calls that change the remote
ModalSessions ==
    {Still(Session(AtPrDetail, {"m", "j", "k", "Enter", "y", "n", "Ctrl-c"}, EmptyCache)),
     Still(Session(AtPrDetail, {"R", "j", "Enter"}, EmptyCache)),
     Still(Session(AtPrDetail, {"m", "Esc"}, EmptyCache)),
     Still(Session(AtPrDetail, {"x", "y", "n", "q", "C", "d"}, EmptyCache)),
     Still(Session(AtPrDetail, {"m", "Enter", "y", "q"}, EmptyCache)),
     Still(Session(AtPrDetail, {"m", "Enter", "/"}, EmptyCache)),
     Session(AtIssues, {"x", "y", "n", "C"}, EmptyCache),
     Session(ToPrDetail, {"m", "Enter", "y"}, EmptyCache),
     Hasty(Still(Session(AtPrDetail, {"x", "y"}, EmptyCache))),
     Hasty(Still(Session(AtPrDetail, {"m", "q", "Enter"}, EmptyCache))),
     Still(Session(TypedAhead, {"y", "n"}, EmptyCache))}

\* searching a list while its reload is under way, and on from there
SearchSessions ==
    {Once(Session(ToRepoList, {"/", "a", "Enter", "n", "N", "Backspace"},
                  Warm(Key("repos", 0, 0)))),
     Still(Session(AtRepoList, {"/", "A", "b", "Enter", "n", "N"}, EmptyCache)),
     Once(Session(ToPrDetail, {"/", "a", "b", "Enter", "n"}, EmptyCache)),
     Still(Session(AtCommitDetail, {"/", "a", "b", "Enter", "n", "N", "Backspace"},
                   EmptyCache)),
     Once(Session(AtRepoView, {"/", "b", "Enter", "n", "i"}, EmptyCache)),
     Still(Session(AtRepoView, {"/", "b", "Enter", "n", "Esc"}, EmptyCache)),
     Still(Session(AtPrDetail, {"/", "a", "b", "Enter", "n", "N", "Backspace"},
                   EmptyCache))}

\* calls that end with a flash message, and the seconds after
FlashSessions ==
    {Still(Session(AtPrDetail, {"x", "y", "j", "C"}, EmptyCache)),
     Still(Session(AtPrDetail, {"R", "Enter", "k"}, EmptyCache)),
     Still(Session(AtPrDetail, {"m", "Enter", "y"}, EmptyCache)),
     Once(Session(AtIssues, {"x", "y"}, EmptyCache))}

\* the diff in the pager, a comment in the editor
SuspendSessions ==
    {Still(Session(AtPrDetail, {"d", "q"}, EmptyCache)),
     Still(Session(AtPrDetail, {"C", "j"}, EmptyCache)),
     Still(Session(AtPrDetail, {"d", "Ctrl-c"}, EmptyCache))}

\* the end of the repository list is reached while more pages exist
PagingSessions ==
    {Once(Session(ToRepoList, {"G", "q"}, Warm(Key("repos", 0, 0)))),
     Once(Session(ToRepoView, {"G", "i", "p"}, Warm(Key("prs", 1, 0))))}

\* a detail screen is shown when the walk ends, opened by the network result
\* or by the cached one with the network unit still out; no key of these
\* sessions is translated to Select
LeaveSessions ==
    {Session(AtPrDetail, {"q", "r"}, EmptyCache),
     Session(AtCommitDetail, {"q", "r"}, EmptyCache),
     Session(ToPrDetail \o <<StepRecv, StepRecv>>, {"q", "j"},
             OneEntry(Key("pr", 1, 1), Entry(0, 0, 0, Some(PrRecord(1, 0, 3)))))}

\* every kind of background unit: loads, page fetches, detail loads, calls
UnitSessions ==
    ModalSessions \cup EdgeSessions
        \cup {Session(ToCommitDetail, {"q", "r", "G"}, EmptyCache)}

InitWith(sessions) ==
    /\ app = AppNew
    /\ chan = <<Act("LoadHome")>>
    /\ tasks = EmptyBag
    /\ last = Idle
    /\ running = TRUE
    /\ term = TermNew
    /\ \E w \in sessions :
          /\ cache = w.cache
          /\ env = [script |-> w.script, keys |-> w.keys, cap |-> w.cap,
                    ahead |-> w.ahead, loads |-> w.loads]

\* scrolling and refreshing the paginated lists
InitLists == InitWith(ScrollSessions \cup RefreshSessions)
SpecLists == InitLists /\ [][Next]_vars

\* reloading one list twice
InitReload == InitWith(ReloadSessions)
SpecReload == InitReload /\ [][Next]_vars

\* moving between the screens
InitNav == InitWith(NavSessions)
SpecNav == InitNav /\ [][Next]_vars

\* moving line by line
InitEdges == InitWith(EdgeSessions)
SpecEdges == InitEdges /\ [][Next]_vars

\* popups and confirmations
InitModal == InitWith(ModalSessions)
SpecModal == InitModal /\ [][Next]_vars

\* searching
InitSearch == InitWith(SearchSessions)
SpecSearch == InitSearch /\ [][Next]_vars

\* the background units
SpecUnits == InitWith(UnitSessions) /\ [][Next]_vars
\* suspend and resume
SpecSuspend == InitWith(SuspendSessions) /\ [][NextSuspend]_vars
\* flash messages and the passing of time
SpecFlash == InitWith(FlashSessions) /\ [][NextTimed]_vars

Init == InitWith(ScrollSessions \cup RefreshSessions \cup ReloadSessions \cup NavSessions)

SpecLeave == InitWith(LeaveSessions) /\ [][Next]_vars

\* the loop takes what is on the channel, and a remote call returns: the
\* runtime polls the loop's task and every spawned unit
Fairness == WF_vars(Recv) /\ WF_vars(NetOk \/ NetErr)
SpecPaging == InitWith(PagingSessions) /\ [][Next]_vars /\ Fairness

Spec == Init /\ [][Next]_vars

-----------------------------------------------------------------------------
(* The generation filter *)

LoadResultKinds ==
    {"HomeLoaded", "PrDetailLoaded", "CommitDetailLoaded"} \cup LoadedKinds
        \cup AppendedKinds

\* the part of the App a discarded load result must leave alone: all of it
\* but the error banner, which every action but Quit and Back clears
Guarded(s) == [s EXCEPT !.error = None]

\* the App holds the payload of result a, applied to the App s
PayloadApplied(s, t, a) ==
    CASE a.kind = "HomeLoaded" ->
            /\ t.review_requests = Items(a.src, 1, a.len)
            /\ t.my_prs = Items(a.src, 1, a.len2)
      [] a.kind \in LoadedKinds -> t[FOfLoaded(a.kind).list] = PayloadOf(a)
      [] a.kind \in AppendedKinds ->
            t[FOfAppended(a.kind).list] = s[FOfAppended(a.kind).list] \o PayloadOf(a)
      [] a.kind = "PrDetailLoaded" -> t.current_pr = a.detail
      [] a.kind = "CommitDetailLoaded" -> t.current_commit = a.detail

\* C1: a load result (HomeLoaded, the five *Loaded, PrDetailLoaded,
\* CommitDetailLoaded, the five *Appended) is applied if its tag equals
\* load_id when the reducer receives it; if the tag differs, the lists, the
\* detail records, the selection indices, the pagination states, the screen
\* and the loading flag are left as they were.
C1_GenerationFilter ==
    [][last'.kind \in LoadResultKinds =>
          IF last'.load_id = app.load_id
          THEN PayloadApplied(app, app', last')
          ELSE Guarded(app') = Guarded(app)]_vars

\* a full page of PRs fetched for an earlier generation has just been
\* discarded
C1_StaleDiscarded ==
    /\ last.kind \in LoadedKinds
    /\ last.load_id < app.load_id
    /\ last.src = last.load_id
    /\ last.len = PAGE_SIZE
    /\ app[FOfLoaded(last.kind).list] # PayloadOf(last)

-----------------------------------------------------------------------------
(* Two loads of one list *)

\* nothing is waiting in the channel and no unit is running
Quiescent == ~Scripted /\ chan = <<>> /\ tasks = EmptyBag

OnListScreen(s) == s.screen \in {"RepoList", "RepoView"}

\* the cache key of the first page of the list shown
ShownKey(s) ==
    Key(ShownF(s).ck, IF s.screen = "RepoList" THEN 0 ELSE Unwrap(s.current_repo), 0)

\* the list shown is a payload the network call of the current generation
\* returned
HoldsNetworkPayload(s) ==
    /\ OnListScreen(s)
    /\ s[ShownF(s).list] # <<>>
    /\ \A i \in 1..Len(s[ShownF(s).list]) : s[ShownF(s).list][i].src = s.load_id

\* the network call of the latest load of the list shown succeeded after
\* those of the earlier loads
LatestWroteCache(s, c) ==
    /\ OnListScreen(s)
    /\ ShownKey(s) \in DOMAIN c
    /\ c[ShownKey(s)].src = s.load_id

\* C2: a list is loaded and loaded again (each load: the cached payload, if
\* any, then the network's), with no later load.  Once every result has been
\* received the list is the payload of the latest load's network call, if
\* that call succeeded; and once the list holds that payload no result of
\* the same or of an earlier load replaces it, so within a load the cached
\* payload is applied before the network's.
C2_LatestLoadWins ==
    /\ [](Quiescent /\ LatestWroteCache(app, cache) =>
            app[ShownF(app).list] = Items(app.load_id, 1, cache[ShownKey(app)].len))
    /\ [][HoldsNetworkPayload(app) /\ app'.load_id = app.load_id =>
            app'[ShownF(app).list] = app[ShownF(app).list]]_vars

\* all is received; the list holds the second load's network payload, and
\* the result received last was the first load's network result, late
C2_LateFirstLoad ==
    /\ Quiescent
    /\ HoldsNetworkPayload(app)
    /\ last.kind \in LoadedKinds
    /\ last.src = last.load_id
    /\ last.load_id < app.load_id
    /\ last.len # Len(app[ShownF(app).list])

-----------------------------------------------------------------------------
(* The generation counter *)

\* C3: every user action that changes the screen or the repo tab, and every
\* Refresh, increments load_id (Back from RepoList, RepoView, PrDetail and
\* CommitDetail, NextTab, PrevTab, SwitchRepoTab and Select among them).
C3_SwitchIncrements ==
    [][(/\ last'.kind \in UserKinds
        /\ \/ app'.screen # app.screen
           \/ app'.repo_tab # app.repo_tab
           \/ last'.kind = "Refresh")
       => app'.load_id = app.load_id + 1]_vars

\* the units of the full loads among the units of bag b
FullLoads(b) == {t \in BagToSet(b) : ~IsPageLoad(t)}

\* C4: a full load (home, repos, PRs, issues, commits, action runs, PR
\* detail, commit detail) is spawned by an action that has incremented
\* load_id, and is handed the new value; load_id never decreases, no two
\* full loads carry the same tag, and nothing in flight, unit or result,
\* carries a tag greater than load_id.
C4_FreshGeneration ==
    /\ [][/\ app'.load_id >= app.load_id
          /\ \A t \in FullLoads(tasks') :
                CopiesIn(t, tasks') > CopiesIn(t, tasks) =>
                    /\ app'.load_id = app.load_id + 1
                    /\ t.load_id = app'.load_id]_vars
    /\ [](/\ \A t \in BagToSet(tasks) : t.load_id <= app.load_id
          /\ \A i \in 1..Len(chan) : chan[i].load_id <= app.load_id
          /\ \A t \in FullLoads(tasks) :
                /\ CopiesIn(t, tasks) = 1
                /\ \A u \in FullLoads(tasks) : u.load_id = t.load_id => u = t)

\* the full loads of two generations are running, the later one with the
\* current load_id
C4_TwoLoadsRunning ==
    \E t, u \in FullLoads(tasks) : t.load_id < u.load_id /\ u.load_id = app.load_id

-----------------------------------------------------------------------------
(* Detail results *)

DetailScreenOf(kind) == IF kind = "PrDetailLoaded" THEN "PrDetail" ELSE "CommitDetail"

\* C5: a PrDetailLoaded (CommitDetailLoaded) result with the current tag,
\* applied on another screen, shows the detail screen with scroll_offset 0 and
\* remembers the screen it came from; applied on that detail screen, it
\* replaces the record (and clears the loading flag and the error banner)
\* and changes nothing else: not the screen, prev_screen or scroll_offset.
C5_DetailArrival ==
    [][(last'.kind \in {"PrDetailLoaded", "CommitDetailLoaded"}
            /\ last'.load_id = app.load_id) =>
          IF app.screen # DetailScreenOf(last'.kind)
          THEN /\ app'.screen = DetailScreenOf(last'.kind)
               /\ app'.scroll_offset = 0
               /\ app'.prev_screen = Some(app.screen)
          ELSE /\ app'.screen = app.screen
               /\ app'.prev_screen = app.prev_screen
               /\ app'.scroll_offset = app.scroll_offset
               /\ [app' EXCEPT !.current_pr = None, !.current_commit = None,
                               !.loading = FALSE, !.error = None]
                    = [app EXCEPT !.current_pr = None, !.current_commit = None,
                                  !.loading = FALSE, !.error = None]]_vars

\* a PR detail result has just replaced the record of the PR detail screen,
\* which stays scrolled down
C5_ReplacedWhileShown ==
    /\ last.kind = "PrDetailLoaded"
    /\ last.load_id = app.load_id
    /\ app.screen = "PrDetail"
    /\ app.scroll_offset > 0
    /\ app.current_pr = last.detail
    /\ Unwrap(last.detail).src = app.load_id

-----------------------------------------------------------------------------
(* Pagination *)

\* C6: a page-1 result (ReposLoaded, PrsLoaded, IssuesLoaded, CommitsLoaded,
\* ActionRunsLoaded) with the current tag sets the list's pagination to
\* page 1, loading_more false and has_more = (the payload has PAGE_SIZE
\* items), whatever it was.
C6_FirstPageResets ==
    [][(last'.kind \in LoadedKinds /\ last'.load_id = app.load_id) =>
          app'[FOfLoaded(last'.kind).pag] =
              [page |-> 1, has_more |-> (last'.len = PAGE_SIZE),
               loading_more |-> FALSE]]_vars

\* a short first page has just reset the pagination of a list while the
\* unit fetching its second page was still running
C6_ResetWhileFetching ==
    /\ last.kind \in LoadedKinds
    /\ last.load_id = app.load_id
    /\ last.len < PAGE_SIZE
    /\ app[FOfLoaded(last.kind).pag] = DefaultPagination
    /\ \E t \in BagToSet(tasks) :
          /\ t.unit = FOfLoaded(last.kind).page_unit
          /\ t.load_id = app.load_id
          /\ t.page = 2

DownKinds == {"ScrollDown", "PageDown", "GoToBottom"}
UpKinds == {"ScrollUp", "GoToTop", "PageUp"}

\* the next-page fetches of list f with the current tag whose result the
\* reducer has not received: units running, results in the channel
Outstanding(f) ==
    BagCardinality([t \in {u \in BagToSet(tasks) :
                                u.unit = f.page_unit /\ u.load_id = app.load_id}
                        |-> CopiesIn(t, tasks)])
    + Cardinality({i \in 1..Len(chan) :
                    chan[i].kind = f.appended /\ chan[i].load_id = app.load_id})

\* the units that tasks' holds and tasks did not
Spawned == tasks' (-) tasks

\* C7: a ScrollDown, PageDown or GoToBottom that leaves the index of the
\* list shown in the trailing window (index >= len - PREFETCH_THRESHOLD)
\* with has_more and without loading_more issues one next-page fetch with
\* the current tag, sets loading_more and adds one to the page cursor; a
\* scroll action applied while that fetch's result is outstanding issues no
\* fetch and leaves the page cursor as it is.
C7_OneFetchPerWindow ==
    [][(last'.kind \in DownKinds /\ OnListScreen(app)) =>
          LET f == ShownF(app)
              p == app[f.pag]
          IN  /\ (/\ InPrefetchWindow(app'[f.idx], Len(app[f.list]))
                  /\ p.has_more /\ ~p.loading_more) =>
                     /\ BagCardinality(Spawned) = 1
                     /\ \A t \in BagToSet(Spawned) :
                           /\ t.unit = f.page_unit
                           /\ t.load_id = app.load_id
                           /\ t.page = p.page + 1
                     /\ app'[f.pag] = [p EXCEPT !.loading_more = TRUE,
                                                !.page = p.page + 1]
              /\ Outstanding(f) > 0 =>
                     /\ Spawned = EmptyBag
                     /\ app'[f.pag].page = p.page]_vars

\* C8: of each paginated list at most one next-page fetch with the current
\* tag is outstanding at any time.
C8_OneFetchOutstanding == \A f \in PagedLists : Outstanding(f) <= 1

\* C9: a page result (ReposAppended, ..., ActionRunsAppended) with the
\* current tag makes the list the old list followed by the page's items,
\* has_more = (the page has PAGE_SIZE items) and loading_more false; the
\* page cursor and the selection index stay.  One with another tag leaves the
\* list, has_more and loading_more as they were.
C9_PageAppended ==
    [][last'.kind \in AppendedKinds =>
          LET f == FOfAppended(last'.kind) IN
          IF last'.load_id = app.load_id
          THEN /\ app'[f.list] = app[f.list] \o PayloadOf(last')
               /\ app'[f.pag] = [page |-> app[f.pag].page,
                                 has_more |-> (last'.len = PAGE_SIZE),
                                 loading_more |-> FALSE]
               /\ app'[f.idx] = app[f.idx]
          ELSE /\ app'[f.list] = app[f.list]
               /\ app'[f.pag] = app[f.pag]]_vars

\* a full second page has just been appended to a full first page, the
\* selection staying on the last item of the first page
C9_FullPageAppended ==
    /\ last.kind \in AppendedKinds
    /\ last.load_id = app.load_id
    /\ last.len = PAGE_SIZE
    /\ Len(app[FOfAppended(last.kind).list]) = 2 * PAGE_SIZE
    /\ app[FOfAppended(last.kind).idx] = PAGE_SIZE - 1
    /\ app[FOfAppended(last.kind).pag] =
          [page |-> 2, has_more |-> TRUE, loading_more |-> FALSE]

\* C10: ScrollUp, GoToTop and PageUp spawn no unit, send no action and
\* leave the pagination state of the five lists as it is; a next-page fetch
\* is issued by ScrollDown, PageDown or GoToBottom only.
C10_UpwardNeverFetches ==
    [][/\ last'.kind \in UpKinds =>
            /\ tasks' = tasks
            /\ chan' = Tail(chan)
            /\ \A f \in PagedLists : app'[f.pag] = app[f.pag]
       /\ (\E t \in BagToSet(Spawned) : IsPageLoad(t)) => last'.kind \in DownKinds]_vars

\* ScrollUp has just left the selection in the trailing window of a list
\* that has more pages and no fetch marked as running
C10_UpInsideWindow ==
    /\ last.kind = "ScrollUp"
    /\ OnListScreen(app)
    /\ app[ShownF(app).idx] < Len(app[ShownF(app).list]) - 1
    /\ ShouldPrefetch(app, ShownF(app))

-----------------------------------------------------------------------------
(* Navigation at the ends of a list, Back *)

OnScrollScreen(s) == s.screen \in {"Home", "RepoList", "RepoView"}

AtFirst(s) == s[ShownF(s).idx] = 0
AtLast(s) ==
    \/ s[ShownF(s).list] = <<>>
    \/ s[ShownF(s).idx] = Len(s[ShownF(s).list]) - 1

\* ScrollUp is applied at index 0, or ScrollDown at the last index or on an
\* empty list, of the list shown
EdgeScroll ==
    /\ OnScrollScreen(app)
    /\ \/ last'.kind = "ScrollUp" /\ AtFirst(app)
       \/ last'.kind = "ScrollDown" /\ AtLast(app)

\* the prefetch check of a ScrollDown that does not move finds a page to fetch
EdgePrefetch ==
    /\ last'.kind = "ScrollDown"
    /\ OnListScreen(app)
    /\ ShouldPrefetch(app, ShownF(app))

C13_BackFromDetail ==
    [][(last'.kind = "Back" /\ OnDetail(app)) =>
          LET target == IF IsSome(app.prev_screen) THEN Unwrap(app.prev_screen)
                        ELSE IF app.screen = "PrDetail" THEN "Home" ELSE "RepoView"
              left == [app EXCEPT !.screen = target, !.scroll_offset = 0,
                                  !.prev_screen = None]
          IN  /\ app' = IF app.screen = "PrDetail"
                        THEN [left EXCEPT !.current_pr = None]
                        ELSE [left EXCEPT !.current_commit = None]
              /\ tasks' = tasks
              /\ chan' = Tail(chan)]_vars

\* Back has just left the detail of a commit for the commit tab it was
\* opened from
C13_BackToCommitTab ==
    /\ last.kind = "Back"
    /\ app.screen = "RepoView"
    /\ app.repo_tab = "Commits"
    /\ app.commits # <<>>
    /\ app.current_commit = None
    /\ app.prev_screen = None
    /\ app.scroll_offset = 0

\* C14: Back on RepoView shows RepoList, resets the repo tab to PullRequests
\* and empties the PR, issue, commit and action-run lists; Back on RepoList
\* shows Home; Back on Home, like Quit, sets should_quit.
C14_BackFromLists ==
    [][/\ (last'.kind = "Back" /\ app.screen = "RepoView") =>
              app' = [app EXCEPT !.screen = "RepoList", !.repo_tab = "PullRequests",
                                 !.prs = <<>>, !.issues = <<>>, !.commits = <<>>,
                                 !.action_runs = <<>>]
       /\ (last'.kind = "Back" /\ app.screen = "RepoList") =>
              app' = [app EXCEPT !.screen = "Home"]
       /\ (last'.kind = "Quit" \/ (last'.kind = "Back" /\ app.screen = "Home")) =>
              app'.should_quit]_vars

\* Back has just left a repository whose commit tab was shown: the browser
\* is shown, the tab is reset and the repository's lists are empty
C14_BackToBrowser ==
    /\ last.kind = "Back"
    /\ app.screen = "RepoList"
    /\ app.repos # <<>>
    /\ IsSome(app.current_repo)
    /\ app.repo_tab = "PullRequests"
    /\ app.prs = <<>> /\ app.issues = <<>> /\ app.commits = <<>>
    /\ app.action_runs = <<>>
    /\ \E t \in BagToSet(tasks) : t.unit = "load_commits" /\ t.load_id = app.load_id

-----------------------------------------------------------------------------
(* Confirm and SelectPopup: the keys *)

Modal(s) == s.input_mode \in {"Confirm", "SelectPopup"}

\* what handle_key makes of every key of `keys` in the present mode, if it
\* is Confirm or SelectPopup
ModalTranslation(keys) ==
    /\ app.input_mode = "Confirm" =>
          \A key \in keys :
              handle_key(app, key).kind =
                  CASE key = "y" -> "ConfirmYes"
                    [] key \in {"n", "Esc"} -> "ConfirmNo"
                    [] OTHER -> "None"
    /\ app.input_mode = "SelectPopup" =>
          \A key \in keys :
              handle_key(app, key).kind # "None"
                  <=> key \in {"j", "k", "Up", "Down", "Enter", "Esc"}

\* a step of the loop's event branch
EventStep == last' = Idle /\ tasks' = tasks /\ <<chan, running>> # <<chan', running'>>

C15_InterruptedConfirm == app.input_mode = "Confirm" /\ ~running /\ ~app.should_quit
-----------------------------------------------------------------------------
(* Confirm and SelectPopup: the reducer *)

\* the actions the reducer sends while it applies one
Sent == SubSeq(chan', Len(chan), Len(chan'))

\* C16 as stated: while the mode is Confirm or SelectPopup the reducer
\* applies no action that a key produced in Normal or Search mode.
C16_ModalExclusive ==
    [][(/\ last'.from \in {"Normal", "Search"}
        /\ last'.kind \notin {"SuspendForPager", "SuspendForEditor"})
            => ~Modal(app)]_vars

\* the call a confirmation request describes
CallOf(confirm) ==
    CASE confirm.op = "ClosePr" -> "close_pr"
      [] confirm.op = "MergePr" -> "merge_pr"
      [] confirm.op = "CloseIssue" -> "close_issue"

\* C17: ConfirmYes with a request pending spawns the one call the request
\* describes, clears the request and returns to Normal; ConfirmNo clears
\* it, returns to Normal and spawns nothing; ConfirmYes without a request
\* spawns nothing.
C17_ConfirmResolves ==
    [][/\ (last'.kind = "ConfirmYes" /\ IsSome(app.confirm_action)) =>
            LET confirm == Unwrap(app.confirm_action) IN
            /\ BagCardinality(Spawned) = 1
            /\ \A t \in BagToSet(Spawned) :
                    /\ t.unit = CallOf(confirm)
                    /\ t.item = confirm.number
                    /\ t.how = confirm.method
            /\ app'.confirm_action = None
            /\ app'.input_mode = "Normal"
       /\ (last'.kind = "ConfirmYes" /\ ~IsSome(app.confirm_action)) =>
            BagCardinality(Spawned) = 0
       /\ last'.kind = "ConfirmNo" =>
            /\ BagCardinality(Spawned) = 0
            /\ app'.confirm_action = None
            /\ app'.input_mode = "Normal"]_vars

\* a squash merge was confirmed and its call is running
C17_SquashConfirmed ==
    /\ last.kind = "ConfirmYes"
    /\ app.input_mode = "Normal"
    /\ \E t \in BagToSet(tasks) : t.unit = "merge_pr" /\ t.how = "Squash"

\* C18 as stated: a confirmation request is held exactly while the mode
\* is Confirm.
C18_RequestIffConfirm == IsSome(app.confirm_action) <=> app.input_mode = "Confirm"

\* C19: while a popup is open the highlight is one of its items; opening
\* sets it to 0; PopupUp and PopupDown move it by one and stop at the
\* first and the last item.
C19_HighlightClamped ==
    /\ [](app.input_mode = "SelectPopup" =>
            app.popup_index \in 0..(Len(app.popup_items) - 1))
    /\ [][/\ last'.kind \in {"ShowMergeMethodSelect", "ShowReviewSelect"} =>
                app'.popup_index = 0
          /\ last'.kind = "PopupUp" =>
                app'.popup_index =
                    IF app.popup_index = 0 THEN 0 ELSE app.popup_index - 1
          /\ last'.kind = "PopupDown" =>
                app'.popup_index =
                    IF app.popup_index = Len(app.popup_items) - 1
                    THEN app.popup_index ELSE app.popup_index + 1]_vars

\* PopupDown was applied and the last item is highlighted
C19_DownToLast ==
    /\ last.kind = "PopupDown"
    /\ app.input_mode = "SelectPopup"
    /\ app.popup_index = Len(app.popup_items) - 1

\* the merge method and the review kind an item of a popup stands for
ChoiceOf(item) ==
    CASE item = "Merge commit" -> "Merge"
      [] item = "Squash and merge" -> "Squash"
      [] item = "Rebase and merge" -> "Rebase"
      [] item = "Approve" -> "Approve"
      [] item = "Request changes" -> "RequestChanges"
      [] item = "Comment" -> "Comment"
Highlighted(s) == ChoiceOf(s.popup_items[s.popup_index + 1])

\* merge_pr, close_pr and close_issue are spawned only by ConfirmYes, for
\* the request that was pending
MutationOnlyConfirmed ==
    \A t \in BagToSet(Spawned) :
        t.unit \in {"merge_pr", "close_pr", "close_issue"} =>
            /\ last'.kind = "ConfirmYes"
            /\ IsSome(app.confirm_action)
            /\ t.unit = CallOf(Unwrap(app.confirm_action))
            /\ t.item = Unwrap(app.confirm_action).number

-----------------------------------------------------------------------------
(* The selection index *)

\* C12 as stated: on every list screen the selection index of the list
\* shown is at most len - 1, and 0 when the list is empty.
C12_IndexInRange ==
    ~OnDetail(app) =>
        LET f == ShownF(app)
        IN  IF app[f.list] = <<>> THEN app[f.idx] = 0
            ELSE app[f.idx] <= Len(app[f.list]) - 1
-----------------------------------------------------------------------------
(* Errors *)

\* C21: Error sets the banner to its message and clears the loading flag;
\* the screen, the mode, the indices, the lists and records, pagination,
\* search and load_id stay as they were.
C21_ErrorKeepsContent ==
    [][last'.kind = "Error" =>
            app' = [app EXCEPT !.error = Some(last'.ch), !.loading = FALSE,
                               !.flash_message = app'.flash_message]]_vars

\* a page fetch failed and its banner is shown over the loaded list
C21_BannerOverList ==
    /\ last.kind = "Error"
    /\ app.error = Some("load_repos_page")
    /\ app.screen = "RepoList"
    /\ app.repos # <<>>
    /\ ~app.loading

\* the actions the loop hands to App::update
Applied(a) == a # Idle /\ a.kind \notin {"SuspendForPager", "SuspendForEditor"}

\* C22: a banner stays across Quit and Back, is replaced by an Error and
\* is cleared by every other action the reducer applies.
C22_BannerUntilNextAction ==
    [][(IsSome(app.error) /\ Applied(last')) =>
            app'.error = CASE last'.kind \in {"Quit", "Back"} -> app.error
                           [] last'.kind = "Error" -> Some(last'.ch)
                           [] OTHER -> None]_vars

\* the user left the screen and the banner is still there
C22_BannerAfterBack ==
    /\ last.kind = "Back"
    /\ IsSome(app.error)
    /\ app.screen = "RepoList"

\* the action a unit sends when its call succeeds
ResultKind(unit) ==
    CASE unit = "load_home" -> "HomeLoaded"
      [] unit = "load_pr_detail" -> "PrDetailLoaded"
      [] unit = "load_commit_detail" -> "CommitDetailLoaded"
      [] unit = "load_pr_diff" -> "SuspendForPager"
      [] unit = "close_pr" -> "PrClosed"
      [] unit = "merge_pr" -> "PrMerged"
      [] unit = "close_issue" -> "IssueClosed"
      [] unit = "comment" -> "CommentPosted"
      [] unit = "submit_review" -> "ReviewSubmitted"
      [] unit \in {f.unit : f \in PagedLists} -> FOfUnit(unit).loaded
      [] unit \in {f.page_unit : f \in PagedLists} -> FOfUnit(unit).appended

\* C23: a background unit ends by sending exactly one action, its result
\* or an Error; it touches neither the App nor the loop nor another unit.
C23_UnitSendsOne ==
    [][(last' = Idle /\ tasks' # tasks) =>
            \E t \in BagToSet(tasks) :
                /\ tasks' = tasks (-) SetToBag({t})
                /\ Len(chan') = Len(chan) + 1
                /\ SubSeq(chan', 1, Len(chan)) = chan
                /\ chan'[Len(chan')].kind \in {ResultKind(t.unit), "Error"}
                /\ app' = app
                /\ running' = running]_vars

\* a merge failed while the detail load of the same PR was still running:
\* its Error is on the channel and the load goes on
C23_FailedBesideLoad ==
    /\ chan # <<>>
    /\ chan[Len(chan)] = ErrorAct("merge_pr")
    /\ \E t \in BagToSet(tasks) : t.unit = "load_pr_detail"
    /\ running
-----------------------------------------------------------------------------
(* Search *)

\* text contains q, letter case ignored
CiContains(text, q) ==
    \E i \in 0..(Len(text) - Len(q)) :
        \A j \in 1..Len(q) : Lower(text[i + j]) = Lower(q[j])

\* the indices of the items of the list shown that match the query
Hits(s) ==
    {i \in 0..(Len(s[ShownF(s).list]) - 1) :
        \E text \in Fields(s[ShownF(s).list][i + 1]) : CiContains(text, s.search.query)}

Ascending(m) == \A i, j \in 1..Len(m) : i < j => m[i] < m[j]

\* C25: on a list screen a query keystroke leaves match_indices the
\* ascending indices of the matching items of the list shown and the
\* cursor 0; SearchNext and SearchPrev move the cursor by one modulo the
\* number of matches and select the item at the cursor.
C25_MatchesAndCursor ==
    [][/\ (/\ last'.kind \in {"SearchInput", "SearchBackspace"}
           /\ ~OnDetail(app')
           /\ app'.search.query # <<>>) =>
            /\ Ascending(app'.search.match_indices)
            /\ {app'.search.match_indices[i] :
                    i \in 1..Len(app'.search.match_indices)} = Hits(app')
            /\ app'.search.current_match = 0
       /\ (/\ last'.kind \in {"SearchNext", "SearchPrev"}
           /\ ~OnDetail(app)
           /\ app.search.match_indices # <<>>) =>
            LET n == Len(app.search.match_indices)
                k == app.search.current_match
                k2 == IF last'.kind = "SearchNext" THEN (k + 1) % n
                      ELSE (k + n - 1) % n
            IN  /\ k < n
                /\ app'.search.current_match = k2
                /\ app'.search.match_indices = app.search.match_indices
                /\ app'[ShownF(app).idx] = app.search.match_indices[k2 + 1]]_vars

\* SearchNext wrapped from the last of several matches to the first, found
\* by a query typed in the other letter case
C25_WrappedToFirst ==
    /\ last.kind = "SearchNext"
    /\ app.screen = "RepoList"
    /\ app.search.query = <<"A">>
    /\ Len(app.search.match_indices) >= 2
    /\ app.search.current_match = 0
    /\ app.repo_index = app.search.match_indices[1]
\* C26: SearchBackspace that empties the query, and ClearSearch, leave both
\* match sets empty and the search inactive; ExitSearchMode and
\* SearchConfirm with a query return to Normal mode, mark the search
\* active and keep the query, both match sets and the cursor.
C26_ClearedOrKept ==
    [][/\ ((last'.kind = "SearchBackspace" /\ app'.search.query = <<>>)
            \/ last'.kind = "ClearSearch") =>
            /\ app'.search.query = <<>>
            /\ app'.search.match_indices = <<>>
            /\ app'.search.content_matches = <<>>
            /\ ~app'.search.active
       /\ (/\ last'.kind \in {"ExitSearchMode", "SearchConfirm"}
           /\ app.search.query # <<>>) =>
            /\ app'.input_mode = "Normal"
            /\ app'.search = [app.search EXCEPT !.active = TRUE]]_vars

\* search mode was left with Esc and the matches of the query are kept
C26_LeftWithMatches ==
    /\ last.kind = "ExitSearchMode"
    /\ app.input_mode = "Normal"
    /\ app.search.active
    /\ app.search.query = <<"b">>
    /\ app.search.match_indices # <<>>
\* C27: at most one of the two match sets, match_indices of a list and
\* content_matches of a document, is non-empty.
C27_OneMatchSet ==
    app.search.match_indices = <<>> \/ app.search.content_matches = <<>>
-----------------------------------------------------------------------------
(* The end of pagination *)

\* C30: a page of fewer than PAGE_SIZE items, full load or appended, leaves
\* has_more false; no next-page fetch of a list is issued while its
\* has_more is false; and has_more, once false, becomes true again only
\* when a full load of the list is applied.
C30_PaginationEnds ==
    [][\A f \in PagedLists :
        /\ (/\ last'.kind \in {f.loaded, f.appended}
            /\ last'.load_id = app.load_id
            /\ last'.len < PAGE_SIZE) => ~app'[f.pag].has_more
        /\ (\E t \in BagToSet(Spawned) : t.unit = f.page_unit) => app[f.pag].has_more
        /\ (~app[f.pag].has_more /\ app'[f.pag].has_more) => last'.kind = f.loaded]_vars
-----------------------------------------------------------------------------
(* Flash messages *)

\* C24: a flash message is in the state two seconds after it was set and
\* is not in the state four seconds after it was set, whether or not an
\* action was applied in between.
C24_FlashExpires ==
    /\ [][(IsSome(app.flash_message) /\ Unwrap(app.flash_message).age <= 2) =>
                IsSome(app'.flash_message)]_vars
    /\ [](IsSome(app.flash_message) => Unwrap(app.flash_message).age < 4)
-----------------------------------------------------------------------------
(* Suspend and resume *)

\* C28: the listener's task and the child process never run at the same
\* time: no task, current or aborted, is alive while the child runs.
C28_NeverTogether == ~(term.child /\ (term.listener \/ term.stopping))

\* the steps of a suspension, in their order
NextPhase ==
    [loop |-> "dropped", dropped |-> "cooked", cooked |-> "child", child |-> "exited",
     exited |-> "raw", raw |-> "drained", drained |-> "loop"]

InOrder ==
    /\ [][term.phase' # term.phase => term.phase' = NextPhase[term.phase]]_vars
    /\ [](term.phase # "loop" => term.events = <<>> /\ ~term.listener)
    /\ [](term.child <=> term.phase = "child")
    /\ [](term.raw <=> term.phase \in {"loop", "dropped", "raw", "drained"})

\* C29 as stated: the steps run in their order, what the old listener had
\* buffered is dropped, and every key the loop translates reached the
\* terminal while a listener was in place.
C29_NoKeyFromTheGap ==
    /\ InOrder
    /\ [](IsSome(term.key) => Unwrap(term.key).at = "loop")

\* C29, amended: ... or reached it after drain_events and before the new
\* listener was created.
C29_NoKeyFromBeforeDrain ==
    /\ InOrder
    /\ [](IsSome(term.key) => Unwrap(term.key).at \in {"loop", "drained"})

\* a key that arrived between drain_events and EventHandler::new was
\* translated after the resume
C29_KeyAfterDrain ==
    /\ term.phase = "loop"
    /\ IsSome(term.key)
    /\ Unwrap(term.key).at = "drained"
    /\ chan # <<>>
    /\ chan[Len(chan)].kind = "Back"
-----------------------------------------------------------------------------
(* The previous-screen slot *)

\* C31: the previous-screen slot, when set, holds Home or RepoView and a
\* detail screen is shown; the Back that leaves the detail screen clears it.
C31_PrevScreenSlot ==
    /\ [](IsSome(app.prev_screen) =>
            /\ Unwrap(app.prev_screen) \in {"Home", "RepoView"}
            /\ OnDetail(app))
    /\ [][(last'.kind = "Back" /\ OnDetail(app)) => app'.prev_screen = None]_vars
-----------------------------------------------------------------------------
(* The layout of the commit screen *)

\* the text of line idx of the files block that starts at line base: per
\* file a header, the patch lines, a blank line
RECURSIVE FileText(_, _, _)
FileText(files, idx, base) ==
    IF files = <<>> THEN <<>>
    ELSE LET n == IF Head(files) >= 0 THEN Head(files) ELSE 0
         IN  IF idx > base /\ idx <= base + n THEN DocLine(idx - base - 1)
             ELSE FileText(Tail(files), idx, base + 1 + n + 1)

\* the searchable text of line idx of commit c as the scroll bound lays it
\* out: 5 header lines, the message, a blank line, the files
LineText(c, idx) ==
    IF idx >= 5 /\ idx < 5 + c.msg THEN DocLine(idx - 5)
    ELSE FileText(c.files, idx, 5 + c.msg + 1)

\* C32: the matches that a query keystroke records on CommitDetail lie on
\* lines of the layout of max_scroll_offset: each is an occurrence of the
\* query in the text of its line, no line index exceeds max_scroll_offset,
\* every line containing the query has a match, and the matches are in
\* document order with non-overlapping ranges within a line.
C32_CommitLayout ==
    [][(/\ last'.kind \in {"SearchInput", "SearchBackspace"}
        /\ app'.screen = "CommitDetail"
        /\ IsSome(app'.current_commit)
        /\ app'.search.query # <<>>) =>
          LET c == Unwrap(app'.current_commit)
              q == to_lowercase(app'.search.query)
              ms == app'.search.content_matches
          IN  /\ \A i \in 1..Len(ms) :
                    /\ ms[i][1] <= max_scroll_offset(app')
                    /\ ms[i][3] = ms[i][2] + Len(q)
                    /\ ms[i][3] <= Len(LineText(c, ms[i][1]))
                    /\ SubSeq(to_lowercase(LineText(c, ms[i][1])),
                              ms[i][2] + 1, ms[i][3]) = q
              /\ \A l \in 0..max_scroll_offset(app') :
                    CiContains(LineText(c, l), q) => \E i \in 1..Len(ms) : ms[i][1] = l
              /\ \A i \in 1..(Len(ms) - 1) :
                    \/ ms[i][1] < ms[i + 1][1]
                    \/ ms[i][1] = ms[i + 1][1] /\ ms[i][3] <= ms[i + 1][2]]_vars

\* a query found twice in a message line and in a patch line of the first
\* file of a commit
C32_MatchInPatch ==
    /\ last.kind = "SearchInput"
    /\ app.screen = "CommitDetail"
    /\ app.search.query = <<"a">>
    /\ \E i \in 1..(Len(app.search.content_matches) - 1) :
          /\ app.search.content_matches[i][1] = 5
          /\ app.search.content_matches[i + 1][1] = 5
    /\ \E i \in 1..Len(app.search.content_matches) :
          app.search.content_matches[i][1] = 9
-----------------------------------------------------------------------------
(* The pages of a list *)

\* C33: a paginated list is the pages 1..k of the remote list in order,
\* each once, for a k that is at most the page cursor: its i-th item is
\* the i-th item of the remote list, and it holds no item of a page after
\* the page cursor.
C33_PagesOnce ==
    \A f \in PagedLists :
        /\ \A i \in 1..Len(app[f.list]) : app[f.list][i].n = i
        /\ Len(app[f.list]) <= app[f.pag].page * PAGE_SIZE

\* C34: has_more of a list is true only if the list holds at least
\* PAGE_SIZE items, and no next-page fetch of a list is issued while the
\* list is empty.
C34_HasMoreNeedsFullPage ==
    /\ [](\A f \in PagedLists :
            app[f.pag].has_more => Len(app[f.list]) >= PAGE_SIZE)
    /\ [][\A f \in PagedLists :
            (\E t \in BagToSet(Spawned) : t.unit = f.page_unit) =>
                app[f.list] # <<>>]_vars

\* C35: under fair delivery of the background results, whenever
\* loading_more of a list is true it is false again at some later time (or
\* the application has ended).
C35_LoadingMoreEnds ==
    \A f \in PagedLists :
        app[f.pag].loading_more ~> (~app[f.pag].loading_more \/ ~running)
-----------------------------------------------------------------------------
(* Leaving a detail screen *)

\* C36: in the sessions that end their walk on a detail screen and hold
\* no key for Select, so that no Select is applied after the walk: once the
\* user has left the detail screen (with Back, the only action that leaves
\* it), no later step shows a detail screen again.
C36_NoReopen ==
    [][(~Scripted /\ ~OnDetail(app)) => ~OnDetail(app')]_vars

\* C37: on PrDetail a pull request is recorded, on CommitDetail a commit,
\* and on RepoView, PrDetail and CommitDetail a current repository.
C37_RecordsPresent ==
    /\ app.screen = "PrDetail" => IsSome(app.current_pr)
    /\ app.screen = "CommitDetail" => IsSome(app.current_commit)
    /\ app.screen \in {"RepoView", "PrDetail", "CommitDetail"} =>
            IsSome(app.current_repo)
\* Back has cleared the record of the pull request and left its screen for
\* the view of the repository, which is still recorded
C37_BackLeftDetail ==
    /\ last.kind = "Back"
    /\ app.screen = "RepoView"
    /\ app.current_pr = None
    /\ IsSome(app.current_repo)
    /\ app.prs # <<>>
-----------------------------------------------------------------------------
(* The scroll offset of a document *)

\* C38: on the detail screens scroll_offset is at most max_scroll_offset()
\* of the record shown.
C38_ScrollWithinDocument ==
    OnDetail(app) => app.scroll_offset <= max_scroll_offset(app)
-----------------------------------------------------------------------------
(* The target of a confirmed call *)

\* C39: while a confirmation is requested no applied action changes
\* current_repo, and the call that ConfirmYes spawns names the repository
\* that is current then.
C39_RepoKeptUntilYes ==
    [][/\ IsSome(app.confirm_action) => app'.current_repo = app.current_repo
       /\ (last'.kind = "ConfirmYes" /\ IsSome(app.confirm_action)) =>
              \A t \in BagToSet(Spawned) : Some(t.repo) = app.current_repo]_vars

\* C40: the Back that PrMerged and PrClosed send on the channel is applied
\* on the PR detail screen only, and does not end the application.
C40_EmittedBackLeavesDetail ==
    [][(last'.kind = "Back" /\ last'.from = "") =>
          (app.screen = "PrDetail" /\ ~app'.should_quit)]_vars
====
